---- MODULE Spec2Model ----
(***************************************************************************)
(* A model of quantumsim's dense state backend (quantumsim/dm10.py, class  *)
(* Density) and of the shape/index behaviour of the algebra functions      *)
(* kraus_to_ptm and ptm_convert_basis (qs2/operations/algebra.py).         *)
(*                                                                         *)
(* A device array of float64 is modelled sparsely: a function from the     *)
(* indices that hold a nonzero value to that value; every other index of   *)
(* the buffer holds 0.  All values are integers.                           *)
(***************************************************************************)
EXTENDS Integers, Sequences, FiniteSets, TLC

\* ------------------------------------------------------------------ bounds
\* Largest qubit count the full model (Spec) grows a state to.
MaxQubits == 2
\* Largest absolute value of a state entry the full model explores.
MaxVal == 2
\* Largest qubit count the size-limit model (SpecSize) grows a state to.
MaxQubitsBig == 11

\* ------------------------------------------------------- program constants
\* dm10.py:93  "if no_qubits > 15: raise ValueError"
MaxCtorQubits == 15
\* dm10.py:148 / dm10.py:336  "if self.no_qubits > 10: raise NotImplementedError"
MaxTraceQubits == 10
\* dm10.py:143  self._blocksize = 2**8 ; dm10.py:144  2**max(0, 2*no_qubits - 8)
BlockBits == 8
\* size in bytes of one np.float64 element (the "* 8" of dm10.py:310, 377)
ItemSize == 8

\* ------------------------------------------------------------ sparse arrays
Empty == [i \in {} |-> 0]

At(a, i) == IF i \in DOMAIN a THEN a[i] ELSE 0

\* The first n elements of a buffer (the logical state self.data[:_size]).
Logical(a, n) == [i \in {j \in DOMAIN a : j < n} |-> a[i]]

RECURSIVE SumOver(_, _)
SumOver(a, S) ==
    IF S = {} THEN 0
    ELSE LET i == CHOOSE j \in S : TRUE IN a[i] + SumOver(a, S \ {i})

Max(x, y) == IF x >= y THEN x ELSE y

Bounded(a) == \A i \in DOMAIN a : a[i] >= -MaxVal /\ a[i] <= MaxVal

\* Base-4 digit k of index i: the basis element of qubit k (0 = |0><0|,
\* 1, 2 = coherences, 3 = |1><1|); the highest qubit is the most significant.
Digit(i, k) == (i \div (4^k)) % 4

SetDigit(i, k, d) == i + (d - Digit(i, k)) * (4^k)

\* ------------------------------------------------------ driver primitives
\* pycuda.driver.memcpy_dtod(dest, src, size): `size` bytes from element
\* offset `soff` of src to byte offset `dbytes` of dest.
memcpy_dtod(dest, dbytes, src, sbytes, size) ==
    LET doff == dbytes \div ItemSize
        soff == sbytes \div ItemSize
        cnt  == size \div ItemSize
        keep == {i \in DOMAIN dest : i < doff \/ i >= doff + cnt}
        from == {i \in DOMAIN src : i >= soff /\ i < soff + cnt}
        into == {i - soff + doff : i \in from}
    IN [i \in keep \cup into |->
            IF i \in into THEN src[i - doff + soff] ELSE dest[i]]

\* pycuda.driver.memset_d8(dest, 0, count): `count` zero bytes at byte offset
\* `dbytes` of dest.
memset_d8(dest, dbytes, count) ==
    LET doff == dbytes \div ItemSize
        cnt  == count \div ItemSize
    IN [i \in {j \in DOMAIN dest : j < doff \/ j >= doff + cnt} |-> dest[i]]

\* -------------------------------------------------------------- the state
VARIABLES
    stage,       \* "unborn" before the constructor has returned an object,
                 \* "live" after, and "undefined" once a kernel has read past
                 \* the end of a device array: the run is not followed further
    self,        \* the fields of the Density object
    _ptm_cache,  \* Density._ptm_cache, the class-level dict: key -> device array
    ret,         \* the last call: its name, its arguments (a ptm or an
                 \* initial state excepted), its outcome and kernel launches
    prev,        \* the call right before the project_measurement in ret, if
                 \* it was the add_ancilla of the qubit projected, in the state
                 \* projected on, or a partial_trace of the qubit projected
    operation,   \* the Operation object the calls of operation.py act on
    frames       \* the frames of the threads running apply_ptm concurrently

vars == <<stage, self, _ptm_cache, ret, prev, operation, frames>>

\* What the sequential methods of Density leave alone.
elsewhere == <<operation, frames>>

\* No Operation has been built, and no thread has entered apply_ptm.
NoOperation == [kind |-> "none"]

NoFrames == <<>>

NoSelf ==
    [no_qubits |-> 0, allocated_qubits |-> 0, allocated_diag |-> -1,
     _size |-> 1, _blocksize |-> 2^BlockBits, _gridsize |-> 1,
     data |-> Empty, data_size |-> 0, diag_work |-> -1]

NoBefore == [no_qubits |-> -1, data |-> Empty]

NoCall ==
    [op |-> "none", args |-> <<>>, err |-> "none", val |-> <<>>,
     kernels |-> <<>>, branch |-> "", before |-> NoBefore]

Call(op, args, err, val, kernels) ==
    [op |-> op, args |-> args, err |-> err, val |-> val,
     kernels |-> kernels, branch |-> "", before |-> NoBefore]

\* What a method hands back: the object after the call, and the exception
\* raised ("none" when it returns), the value returned, the kernels launched.
Ok(s, val, kernels) == [self |-> s, err |-> "none", val |-> val, kernels |-> kernels]

Raise(s, err) == [self |-> s, err |-> err, val |-> <<>>, kernels |-> <<>>]

Kernel(name) == [name |-> name, shape |-> <<>>, dtype |-> ""]

\* --------------------------------------------------------- Density methods
\* dm10.py:138-144
_set_no_qubits(s, no_qubits) ==
    [s EXCEPT !.allocated_qubits = Max(s.allocated_qubits, no_qubits),
              !.no_qubits = no_qubits,
              !._size = 4^no_qubits,
              !._blocksize = 2^BlockBits,
              !._gridsize = 2^Max(0, 2 * no_qubits - BlockBits)]

\* dm10.py:387-392: TRUE when _validate_bit raises ValueError.
_validate_bit(s, number) == number < 0 \/ number >= s.no_qubits

\* A device array handed to the constructor: ga.GPUArray of `size` elements.
GPUArray(content, size, dtype) ==
    [type |-> "GPUArray", content |-> content, size |-> size, dtype |-> dtype]

None == [type |-> "None", content |-> Empty, size |-> 0, dtype |-> ""]

\* dm10.py:71-136, data an ndarray excepted.  The object of a constructor
\* that raises is discarded, so the two checks that need no field are made
\* first (a negative count raises in _set_no_qubits' shift, dm10.py:142).
__init__(no_qubits, d) ==
    IF no_qubits < 0 \/ no_qubits > MaxCtorQubits
    THEN Raise(NoSelf, "ValueError")
    ELSE LET s == _set_no_qubits(
                      [NoSelf EXCEPT !.allocated_qubits = 0,
                                     !.allocated_diag = -1], no_qubits)
         IN CASE d.type = "GPUArray" ->
                   IF d.size # s._size THEN Raise(NoSelf, "ValueError")
                   ELSE IF d.dtype # "float64" THEN Raise(NoSelf, "ValueError")
                   ELSE Ok([s EXCEPT !.data = d.content, !.data_size = d.size],
                           <<>>, <<>>)
              [] d.type = "None" ->
                   Ok([s EXCEPT !.data = [i \in {0} |-> 1],
                                !.data_size = s._size], <<>>, <<>>)
              [] OTHER -> Raise(NoSelf, "ValueError")

\* ---- kernels of primitives.cu, as the backend interface describes them ----
\* get_diag: out[x] = dm[addr(x)], where bit k of x selects digit 0 or 3 of
\* qubit k.
RECURSIVE IsDiag(_, _)
IsDiag(i, n) ==
    IF n = 0 THEN i = 0
    ELSE (i % 4) \in {0, 3} /\ IsDiag(i \div 4, n - 1)

RECURSIVE DiagIndex(_, _)
DiagIndex(i, n) ==
    IF n = 0 THEN 0
    ELSE (IF i % 4 = 3 THEN 1 ELSE 0) + 2 * DiagIndex(i \div 4, n - 1)

_get_diag(data, no_qubits) ==
    LET on == {i \in DOMAIN data : IsDiag(i, no_qubits)}
        at == [x \in {DiagIndex(i, no_qubits) : i \in on} |->
                  CHOOSE i \in on : DiagIndex(i, no_qubits) = x]
    IN [x \in DOMAIN at |-> data[at[x]]]

\* trace: diag[0] = the sum of the entries whose bit `bit` is set (all of
\* them for bit = -1), diag[1] = the sum of the others.
_trace(diag, bit) ==
    LET set == {x \in DOMAIN diag : bit < 0 \/ (x \div (2^bit)) % 2 = 1}
    IN <<SumOver(diag, set), SumOver(diag, DOMAIN diag \ set)>>

\* swap: exchanges the basis elements of qubits bit0 and bit1.
_swap(data, bit0, bit1, no_qubits) ==
    LET in  == {i \in DOMAIN data : i < 4^no_qubits}
        to(i) == SetDigit(SetDigit(i, bit0, Digit(i, bit1)), bit1, Digit(i, bit0))
        out == {to(i) : i \in in}
    IN [j \in out \cup (DOMAIN data \ in) |->
            IF j \in out THEN data[to(j)] ELSE data[j]]

\* dm10.py:151-153, 204-206, 339-341: the work buffer of trace, get_diag
\* and partial_trace.
alloc_diag_work(s) ==
    IF s.allocated_diag < s.no_qubits
    THEN [s EXCEPT !.diag_work = 2^s.no_qubits,
                   !.allocated_qubits = s.no_qubits]
    ELSE s

\* trace without the size limit (dm10.py:148-150).
trace_nolimit(s) ==
    LET diag == _get_diag(s.data, s.no_qubits)
    IN Ok(alloc_diag_work(s), <<_trace(diag, -1)[1]>>,
          <<Kernel("get_diag"), Kernel("trace")>>)

\* dm10.py:146-169
trace(s) ==
    IF s.no_qubits > MaxTraceQubits THEN Raise(s, "NotImplementedError")
    ELSE LET diag == _get_diag(s.data, s.no_qubits)
         IN Ok(alloc_diag_work(s), <<_trace(diag, -1)[1]>>,
               <<Kernel("get_diag"), Kernel("trace")>>)

\* dm10.py:203-218
get_diag(s) ==
    Ok(alloc_diag_work(s), <<_get_diag(s.data, s.no_qubits)>>,
       <<Kernel("get_diag")>>)

\* dm10.py:334-361
partial_trace(s, bit) ==
    IF _validate_bit(s, bit) THEN Raise(s, "ValueError")
    ELSE IF s.no_qubits > MaxTraceQubits THEN Raise(s, "NotImplementedError")
    ELSE LET diag == _get_diag(s.data, s.no_qubits)
             tr1 == _trace(diag, bit)[1]
             tr0 == _trace(diag, bit)[2]
         IN Ok(alloc_diag_work(s), <<tr0, tr1>>,
               <<Kernel("get_diag"), Kernel("trace")>>)

\* add_ancilla without the final _set_no_qubits (dm10.py:332).
add_ancilla_noresize(s, anc_st) == Ok(s, <<>>, <<>>)

\* add_ancilla whose reuse branch does not clear the three upper blocks
\* for anc_st = 0 (dm10.py:322-324 left out).
add_ancilla_nomemset(s, anc_st) ==
    LET byte_size_of_smaller_dm == 4^s.no_qubits * ItemSize
        new_dm == memcpy_dtod(Empty, anc_st * 3 * byte_size_of_smaller_dm,
                              s.data, 0, byte_size_of_smaller_dm)
        reused ==
            IF anc_st = 1
            THEN memset_d8(memcpy_dtod(s.data, 3 * byte_size_of_smaller_dm,
                                       s.data, 0, byte_size_of_smaller_dm),
                           0, 3 * byte_size_of_smaller_dm)
            ELSE s.data
        s1 == IF s.allocated_qubits = s.no_qubits
              THEN [s EXCEPT !.data = new_dm, !.data_size = s._size * 4]
              ELSE [s EXCEPT !.data = reused]
    IN Ok(_set_no_qubits(s1, s.no_qubits + 1), <<>>, <<>>)

\* add_ancilla whose new buffer has the size of the old one
\* (ga.zeros(self._size) for ga.zeros(self._size * 4), dm10.py:314).
add_ancilla_small(s, anc_st) ==
    LET byte_size_of_smaller_dm == 4^s.no_qubits * ItemSize
        new_dm == memcpy_dtod(Empty, anc_st * 3 * byte_size_of_smaller_dm,
                              s.data, 0, byte_size_of_smaller_dm)
        reused ==
            IF anc_st = 0
            THEN memset_d8(s.data, byte_size_of_smaller_dm,
                           3 * byte_size_of_smaller_dm)
            ELSE IF anc_st = 1
            THEN memset_d8(memcpy_dtod(s.data, 3 * byte_size_of_smaller_dm,
                                       s.data, 0, byte_size_of_smaller_dm),
                           0, 3 * byte_size_of_smaller_dm)
            ELSE s.data
        s1 == IF s.allocated_qubits = s.no_qubits
              THEN [s EXCEPT !.data = new_dm, !.data_size = s._size]
              ELSE [s EXCEPT !.data = reused]
    IN Ok(_set_no_qubits(s1, s.no_qubits + 1), <<>>, <<>>)

\* dm10.py:305-332
add_ancilla(s, anc_st) ==
    LET byte_size_of_smaller_dm == 4^s.no_qubits * ItemSize
        new_dm == memcpy_dtod(Empty, anc_st * 3 * byte_size_of_smaller_dm,
                              s.data, 0, byte_size_of_smaller_dm)
        reused ==
            IF anc_st = 0
            THEN memset_d8(s.data, byte_size_of_smaller_dm,
                           3 * byte_size_of_smaller_dm)
            ELSE IF anc_st = 1
            THEN memset_d8(memcpy_dtod(s.data, 3 * byte_size_of_smaller_dm,
                                       s.data, 0, byte_size_of_smaller_dm),
                           0, 3 * byte_size_of_smaller_dm)
            ELSE s.data
        s1 == IF s.allocated_qubits = s.no_qubits
              THEN [s EXCEPT !.data = new_dm, !.data_size = s._size * 4]
              ELSE [s EXCEPT !.data = reused]
    IN Ok(_set_no_qubits(s1, s.no_qubits + 1), <<>>, <<>>)

\* project_measurement without the copy of the |1><1| block (dm10.py:376-381).
project_measurement_nocopy(s, bit, state) ==
    IF _validate_bit(s, bit) THEN Raise(s, "ValueError")
    ELSE LET swapped == IF bit # s.no_qubits - 1
                        THEN _swap(s.data, bit, s.no_qubits - 1, s.no_qubits)
                        ELSE s.data
         IN Ok(_set_no_qubits([s EXCEPT !.data = swapped], s.no_qubits - 1),
               <<"self">>,
               IF bit # s.no_qubits - 1 THEN <<Kernel("swap")>> ELSE <<>>)

\* project_measurement without the swap to the last slot (dm10.py:369-374).
project_measurement_noswap(s, bit, state) ==
    IF _validate_bit(s, bit) THEN Raise(s, "ValueError")
    ELSE LET byte_size_of_smaller_dm == 4^(s.no_qubits - 1) * ItemSize
             copied == IF state = 1
                       THEN memcpy_dtod(s.data, 0, s.data,
                                        3 * byte_size_of_smaller_dm,
                                        byte_size_of_smaller_dm)
                       ELSE s.data
         IN Ok(_set_no_qubits([s EXCEPT !.data = copied], s.no_qubits - 1),
               <<"self">>, <<>>)

\* project_measurement with the qubits above `bit` shifted down by one,
\* in place of the swap with the last qubit.
project_measurement_shift(s, bit, state) ==
    IF _validate_bit(s, bit) THEN Raise(s, "ValueError")
    ELSE LET n == s.no_qubits
             in == {i \in DOMAIN s.data : i < 4^n}
             to(i) == (i % 4^bit) + (i \div 4^(bit + 1)) * 4^bit
                      + Digit(i, bit) * 4^(n - 1)
             from(j) == (j % 4^bit) + Digit(j, n - 1) * 4^bit
                        + ((j \div 4^bit) % 4^(n - 1 - bit)) * 4^(bit + 1)
             out == {to(i) : i \in in}
             shifted == [j \in out \cup (DOMAIN s.data \ in) |->
                            IF j \in out THEN s.data[from(j)] ELSE s.data[j]]
             byte_size_of_smaller_dm == 4^(n - 1) * ItemSize
             copied == IF state = 1
                       THEN memcpy_dtod(shifted, 0, shifted,
                                        3 * byte_size_of_smaller_dm,
                                        byte_size_of_smaller_dm)
                       ELSE shifted
         IN Ok(_set_no_qubits([s EXCEPT !.data = copied], n - 1),
               <<"self">>,
               IF bit # n - 1 THEN <<Kernel("swap")>> ELSE <<>>)

\* dm10.py:363-385
project_measurement(s, bit, state) ==
    IF _validate_bit(s, bit) THEN Raise(s, "ValueError")
    ELSE LET swapped == IF bit # s.no_qubits - 1
                        THEN _swap(s.data, bit, s.no_qubits - 1, s.no_qubits)
                        ELSE s.data
             byte_size_of_smaller_dm == 4^(s.no_qubits - 1) * ItemSize
             copied == IF state = 1
                       THEN memcpy_dtod(swapped, 0, swapped,
                                        3 * byte_size_of_smaller_dm,
                                        byte_size_of_smaller_dm)
                       ELSE swapped
         IN Ok(_set_no_qubits([s EXCEPT !.data = copied], s.no_qubits - 1),
               <<"self">>,
               IF bit # s.no_qubits - 1 THEN <<Kernel("swap")>> ELSE <<>>)

\* dm10.py:176-180: the whole backing buffer is copied and handed to the
\* constructor.
copy(s) ==
    LET r == __init__(s.no_qubits, GPUArray(s.data, s.data_size, "float64"))
    IN IF r.err = "none" THEN Ok(s, <<r.self>>, <<>>) ELSE Raise(s, r.err)

\* ------------------------------------------------------------- PTM arrays
\* A numpy array passed as ptm: its shape, its dtype and `raw`, the bytes
\* ptm.tobytes() gives (C order, so the shape is not part of them).
Array(shape, dtype, raw) == [shape |-> shape, dtype |-> dtype, raw |-> raw]

RECURSIVE Numel(_)
Numel(shape) == IF shape = <<>> THEN 1 ELSE shape[1] * Numel(Tail(shape))

\* Element k of the float64 array the bytes `raw` hold.
\*   "X": the bit flip, (x0, x1, x2, x3) -> (x3, x1, -x2, x0)
\*   "SWAP": row 4*a0 + a1, column 4*b0 + b1 is 1 iff a0 = b1 and a1 = b0
Elem(raw, k) ==
    CASE raw = "X" -> IF k \in {3, 5, 12} THEN 1 ELSE IF k = 10 THEN -1 ELSE 0
      [] raw = "SWAP" ->
            LET r == k \div 16
                c == k % 16
            IN IF r \div 4 = c % 4 /\ r % 4 = c \div 4 THEN 1 ELSE 0
      [] OTHER -> 0

\* hash(ptm.tobytes()), dm10.py:238, 261: the key of an array is its bytes
\* (the hash is taken to be collision-free).
tobytes(ptm) == ptm.raw

\* ga.to_gpu(ptm): the device copy keeps shape, dtype and bytes.
to_gpu(ptm) == ptm

\* Element k of a device array as a kernel reads it; a read past the end of
\* the allocation returns the arbitrary value g.
DevElem(ptm_gpu, k, g) ==
    IF k < Numel(ptm_gpu.shape) THEN Elem(ptm_gpu.raw, k) ELSE g

PtmKernel(name, ptm_gpu) ==
    [name |-> name, shape |-> ptm_gpu.shape, dtype |-> ptm_gpu.dtype]

\* single_qubit_ptm: new[a] = sum_b ptm[4*a + b] * old[b] on qubit `bit`.
_single_qubit_ptm(data, ptm_gpu, bit, no_qubits) ==
    LET in == {i \in DOMAIN data : i < 4^no_qubits}
        cand == {SetDigit(i, bit, a) : i \in in, a \in 0..3}
        term(j, b) == DevElem(ptm_gpu, 4 * Digit(j, bit) + b, 0)
                      * At(data, SetDigit(j, bit, b))
        new == [j \in cand |-> term(j, 0) + term(j, 1) + term(j, 2) + term(j, 3)]
        nz == {j \in cand : new[j] # 0}
    IN [j \in nz \cup (DOMAIN data \ in) |->
            IF j \in nz THEN new[j] ELSE data[j]]

\* two_qubit_ptm: new[a0, a1] = sum_{b0, b1} ptm[16*(4*a0 + a1) + 4*b0 + b1]
\* * old[b0, b1] on qubits bit0, bit1.
_two_qubit_ptm(data, ptm_gpu, bit0, bit1, no_qubits, g) ==
    LET in == {i \in DOMAIN data : i < 4^no_qubits}
        put(i, c) == SetDigit(SetDigit(i, bit0, c \div 4), bit1, c % 4)
        cand == {put(i, c) : i \in in, c \in 0..15}
        row(j) == 4 * Digit(j, bit0) + Digit(j, bit1)
        new == [j \in cand |->
                   LET cs == {c \in 0..15 : put(j, c) \in in}
                   IN SumOver([c \in cs |-> DevElem(ptm_gpu, 16 * row(j) + c, g)
                                            * data[put(j, c)]], cs)]
        nz == {j \in cand : new[j] # 0}
    IN [j \in nz \cup (DOMAIN data \ in) |->
            IF j \in nz THEN new[j] ELSE data[j]]

\* dm10.py:394-406: TRUE when _validate_ptm raises ValueError.
_validate_ptm(ptm, target_shape) ==
    ptm.shape # target_shape \/ ptm.dtype # "float64"

OkC(s, cache, kernels) ==
    [self |-> s, cache |-> cache, err |-> "none", val |-> <<>>, kernels |-> kernels]

RaiseC(s, cache, err) ==
    [self |-> s, cache |-> cache, err |-> err, val |-> <<>>, kernels |-> <<>>]

\* The lookup with the device copy inserted before the array is validated.
ptm_lookup_insert_first(cache, ptm, target_shape) ==
    LET key == tobytes(ptm)
        put == [k \in DOMAIN cache \cup {key} |->
                   IF k = key THEN to_gpu(ptm) ELSE cache[k]]
    IN IF key \in DOMAIN cache
       THEN [err |-> "none", cache |-> cache, ptm_gpu |-> cache[key]]
       ELSE IF _validate_ptm(ptm, target_shape)
       THEN [err |-> "ValueError", cache |-> put, ptm_gpu |-> ptm]
       ELSE [err |-> "none", cache |-> put, ptm_gpu |-> to_gpu(ptm)]

\* dm10.py:261-267, 238-244: the lookup in the class-level cache; on a miss
\* the array is validated against target_shape and its device copy inserted.
ptm_lookup(cache, ptm, target_shape) ==
    LET key == tobytes(ptm)
    IN IF key \in DOMAIN cache
       THEN [err |-> "none", cache |-> cache, ptm_gpu |-> cache[key]]
       ELSE IF _validate_ptm(ptm, target_shape)
       THEN [err |-> "ValueError", cache |-> cache, ptm_gpu |-> ptm]
       ELSE [err |-> "none",
             cache |-> [k \in DOMAIN cache \cup {key} |->
                           IF k = key THEN to_gpu(ptm) ELSE cache[k]],
             ptm_gpu |-> to_gpu(ptm)]

\* dm10.py:258-278
apply_ptm(s, cache, bit, ptm) ==
    IF _validate_bit(s, bit) THEN RaiseC(s, cache, "ValueError")
    ELSE LET l == ptm_lookup(cache, ptm, <<4, 4>>)
         IN IF l.err # "none" THEN RaiseC(s, l.cache, l.err)
            ELSE OkC([s EXCEPT !.data = _single_qubit_ptm(s.data, l.ptm_gpu,
                                                          bit, s.no_qubits)],
                     l.cache, <<PtmKernel("single_qubit_ptm", l.ptm_gpu)>>)

\* dm10.py:234-256; g is what the kernel reads past the end of a device
\* array shorter than 16*16 elements.
apply_two_ptm(s, cache, bit0, bit1, ptm, g) ==
    IF _validate_bit(s, bit0) \/ _validate_bit(s, bit1)
    THEN RaiseC(s, cache, "ValueError")
    ELSE LET l == ptm_lookup(cache, ptm, <<16, 16>>)
         IN IF l.err # "none" THEN RaiseC(s, l.cache, l.err)
            ELSE OkC([s EXCEPT !.data = _two_qubit_ptm(s.data, l.ptm_gpu, bit0,
                                                       bit1, s.no_qubits, g)],
                     l.cache, <<PtmKernel("two_qubit_ptm", l.ptm_gpu)>>)

\* dm10.py:171-174: trace() and the in-place scaling of the whole buffer by
\* 1 / tr.
renormalize(s) ==
    LET t == trace(s)
    IN IF t.err # "none" THEN Raise(s, t.err)
       ELSE Ok([t.self EXCEPT !.data = [i \in DOMAIN s.data |->
                                           s.data[i] \div t.val[1]]],
               <<>>, t.kernels)

\* ------------------------------------------------------------------ inputs
\* Explicit initial states: a value v in entry 0 (the ground population),
\* or 1 in the two population entries 0 and 3 of qubit 0 or in its
\* coherence entry 2.
Contents(n) ==
    {[i \in {0} |-> v] : v \in 1..MaxVal}
    \cup (IF n >= 1 THEN {[i \in {0, 3} |-> 1], [i \in {2} |-> 1]} ELSE {})

CtorData(n) ==
    IF n > MaxCtorQubits THEN {None}
    ELSE {None} \cup {GPUArray(c, 4^n, "float64") : c \in Contents(n)}
         \cup {GPUArray(Empty, 4^n + 1, "float64"),
               GPUArray(Empty, 4^n, "float32"),
               [type |-> "list", content |-> Empty, size |-> 0, dtype |-> ""]}

Ptms ==
    {Array(<<4, 4>>, "float64", "X"), Array(<<16, 16>>, "float64", "SWAP"),
     Array(<<4, 4>>, "float32", "X32")}

\* What a kernel may read past the end of a device array.
Garbage == {0, 1}

\* The values to try for a call of apply_two_ptm: all of Garbage when the
\* cache answers tobytes(ptm) with an array shorter than 16*16 elements.
GarbageFor(cache, ptm) ==
    IF tobytes(ptm) \in DOMAIN cache
       /\ Numel(cache[tobytes(ptm)].shape) < 16 * 16
    THEN Garbage ELSE {0}

\* ----------------------------------------------------------------- actions
Done(r, call) ==
    /\ self' = r.self
    /\ ret' = call
    /\ prev' = NoCall
    /\ UNCHANGED <<stage, _ptm_cache, elsewhere>>

ConstructFrom(qubits) ==
    /\ stage = "unborn"
    /\ \E n \in qubits : \E d \in CtorData(n) :
          LET r == __init__(n, d)
          IN /\ stage' = IF r.err = "none" THEN "live" ELSE "unborn"
             /\ self' = r.self
             /\ ret' = Call("__init__", <<n>>, r.err, <<>>, <<>>)
             /\ prev' = NoCall
             /\ UNCHANGED <<_ptm_cache, elsewhere>>

Construct == ConstructFrom((0..MaxQubits) \cup {MaxCtorQubits + 1})

AddAncillaUpTo(most) ==
    /\ stage = "live"
    /\ self.no_qubits < most
    /\ \E anc_st \in {0, 1} :
          LET r == add_ancilla(self, anc_st)
          IN Done(r, [Call("add_ancilla", <<anc_st>>, r.err, r.val, r.kernels)
                        EXCEPT !.branch =
                                   IF self.allocated_qubits = self.no_qubits
                                   THEN "allocate" ELSE "reuse",
                               !.before =
                                   [no_qubits |-> self.no_qubits,
                                    data |-> Logical(self.data, self._size)]])

AddAncilla == AddAncillaUpTo(MaxQubits)

\* The qubit indices offered to a call: -1, no_qubits (both out of range)
\* and the `span` highest qubits.
Bits(s, span) == {-1} \cup (Max(0, s.no_qubits - span)..s.no_qubits)

ProjectMeasurementFrom(least, span) ==
    /\ stage = "live"
    /\ self.no_qubits >= least
    /\ \E bit \in Bits(self, span) : \E state \in {0, 1} :
          LET r == project_measurement(self, bit, state)
          IN /\ self' = r.self
             /\ ret' = Call("project_measurement", <<bit, state>>, r.err,
                            r.val, r.kernels)
             /\ prev' = IF \/ /\ ret.op = "add_ancilla"
                                 /\ ret.args = <<state>>
                                 /\ bit = self.no_qubits - 1
                              \/ /\ ret.op = "partial_trace"
                                 /\ ret.args = <<bit>>
                        THEN ret ELSE NoCall
             /\ UNCHANGED <<stage, _ptm_cache, elsewhere>>

ProjectMeasurement == ProjectMeasurementFrom(0, MaxQubits)

Trace ==
    /\ stage = "live"
    /\ LET r == trace(self)
       IN Done(r, Call("trace", <<>>, r.err, r.val, r.kernels))

GetDiag ==
    /\ stage = "live"
    /\ LET r == get_diag(self)
       IN Done(r, Call("get_diag", <<>>, r.err, r.val, r.kernels))

PartialTraceOn(span) ==
    /\ stage = "live"
    /\ \E bit \in Bits(self, span) :
          LET r == partial_trace(self, bit)
          IN Done(r, [Call("partial_trace", <<bit>>, r.err, r.val, r.kernels)
                        EXCEPT !.before =
                                   [no_qubits |-> self.no_qubits,
                                    data |-> Empty]])

PartialTrace == PartialTraceOn(MaxQubits)

\* renormalize is called where the scaling is exact in integers.
Renormalize ==
    /\ stage = "live"
    /\ LET t == trace(self)
       IN t.err = "none" =>
             /\ t.val[1] > 0
             /\ \A i \in DOMAIN self.data : self.data[i] % t.val[1] = 0
    /\ LET r == renormalize(self)
       IN Done(r, Call("renormalize", <<>>, r.err, r.val, r.kernels))

Copy ==
    /\ stage = "live"
    /\ LET r == copy(self)
       IN Done(r, Call("copy", <<>>, r.err, r.val, r.kernels))

ApplyPtm ==
    /\ stage = "live"
    /\ \E bit \in Bits(self, MaxQubits) : \E ptm \in Ptms :
          LET r == apply_ptm(self, _ptm_cache, bit, ptm)
          IN /\ Bounded(r.self.data)
             /\ self' = r.self
             /\ _ptm_cache' = r.cache
             /\ ret' = Call("apply_ptm", <<bit>>, r.err, r.val, r.kernels)
             /\ prev' = NoCall
             /\ UNCHANGED <<stage, elsewhere>>

\* The index pairs tried: every pair of distinct qubits, a pair whose first
\* index is below the range and a pair whose second index is above it.
BitPairs(s) ==
    {p \in (0..s.no_qubits - 1) \X (0..s.no_qubits - 1) : p[1] # p[2]}
    \cup {<<-1, 0>>, <<0, s.no_qubits>>}

\* The two indices are distinct: the kernel is written for two qubits.
ApplyTwoPtm ==
    /\ stage = "live"
    /\ \E p \in BitPairs(self) :
       \E ptm \in Ptms : \E g \in GarbageFor(_ptm_cache, ptm) :
          LET bit0 == p[1]
              bit1 == p[2]
              r == apply_two_ptm(self, _ptm_cache, bit0, bit1, ptm, g)
          IN /\ bit0 # bit1
             /\ Bounded(r.self.data)
             /\ self' = r.self
             /\ _ptm_cache' = r.cache
             /\ ret' = Call("apply_two_ptm", <<bit0, bit1>>, r.err, r.val,
                            r.kernels)
             /\ prev' = NoCall
             /\ stage' = IF \E k \in 1..Len(r.kernels) :
                                Numel(r.kernels[k].shape) < 16 * 16
                          THEN "undefined" ELSE "live"
             /\ UNCHANGED elsewhere

Init ==
    /\ stage = "unborn"
    /\ self = NoSelf
    /\ _ptm_cache = [k \in {} |-> Array(<<>>, "", "")]
    /\ ret = NoCall
    /\ prev = NoCall
    /\ operation = NoOperation
    /\ frames = NoFrames

Next ==
    \/ Construct
    \/ AddAncilla
    \/ ProjectMeasurement
    \/ Trace
    \/ GetDiag
    \/ PartialTrace
    \/ Renormalize
    \/ Copy
    \/ ApplyPtm
    \/ ApplyTwoPtm

Spec == Init /\ [][Next]_vars

\* The size-limit model: states of MaxTraceQubits..MaxQubitsBig qubits, at
\* and above the limit of trace and partial_trace, constructed and resized;
\* no PTM is applied.
ConstructBig ==
    ConstructFrom((MaxTraceQubits..MaxQubitsBig)
                  \cup {MaxCtorQubits + 1, MaxCtorQubits + 2})

AddAncillaBig == AddAncillaUpTo(MaxQubitsBig)

ProjectMeasurementBig == ProjectMeasurementFrom(MaxTraceQubits + 1, 1)

PartialTraceBig == PartialTraceOn(1)

NextSize ==
    \/ ConstructBig
    \/ AddAncillaBig
    \/ ProjectMeasurementBig
    \/ Trace
    \/ GetDiag
    \/ PartialTraceBig

SpecSize == Init /\ [][NextSize]_vars

\* The projection model: states of up to ProjectQubits qubits whose data is
\* 1 in one entry, so that every entry can be followed; qubits are added
\* and projected out, no PTM is applied.
ProjectQubits == 3

ConstructPoint ==
    /\ stage = "unborn"
    /\ \E n \in 1..ProjectQubits : \E i \in 0..(4^n - 1) :
          LET r == __init__(n, GPUArray([j \in {i} |-> 1], 4^n, "float64"))
          IN /\ stage' = IF r.err = "none" THEN "live" ELSE "unborn"
             /\ self' = r.self
             /\ ret' = Call("__init__", <<n>>, r.err, <<>>, <<>>)
             /\ prev' = NoCall
             /\ UNCHANGED <<_ptm_cache, elsewhere>>

AddAncillaProject == AddAncillaUpTo(ProjectQubits)

ProjectMeasurementAny == ProjectMeasurementFrom(0, ProjectQubits)

NextProject == ConstructPoint \/ AddAncillaProject \/ ProjectMeasurementAny

SpecProject == Init /\ [][NextProject]_vars

\* ------------------------------------------- qs2/operations/algebra.py
\* Arrays are modelled by their shapes, and by where each element of the
\* result sits.  A basis is known by its two dimensions; b.vectors has the
\* shape (dim_pauli, dim_hilbert, dim_hilbert).
MaxSubsystems == 2
MaxStack == 2

Basis(dim_hilbert, dim_pauli) ==
    [dim_hilbert |-> dim_hilbert, dim_pauli |-> dim_pauli]

vectors(b) == <<b.dim_pauli, b.dim_hilbert, b.dim_hilbert>>

DimPauli(bases) == [i \in 1..Len(bases) |-> bases[i].dim_pauli]

DimHilbert(bases) == [i \in 1..Len(bases) |-> bases[i].dim_hilbert]

reversed(s) == [i \in 1..Len(s) |-> s[Len(s) + 1 - i]]

SetMax(S) == CHOOSE m \in S : \A x \in S : x <= m

\* The multi-indices of an array of shape dims.
Indices(dims) ==
    IF dims = <<>> THEN {<<>>}
    ELSE {x \in [1..Len(dims) -> 0..(SetMax({dims[k] : k \in 1..Len(dims)}) - 1)] :
             \A k \in 1..Len(dims) : x[k] < dims[k]}

\* Row-major (C order) flat index of the multi-index x in the shape dims, as
\* np.kron and reshape lay elements out; and its inverse.
RECURSIVE Ravel(_, _)
Ravel(x, dims) ==
    IF x = <<>> THEN 0
    ELSE Ravel(SubSeq(x, 1, Len(x) - 1), SubSeq(dims, 1, Len(dims) - 1))
             * dims[Len(dims)] + x[Len(x)]

RECURSIVE Unravel(_, _)
Unravel(flat, dims) ==
    IF dims = <<>> THEN <<>>
    ELSE Append(Unravel(flat \div dims[Len(dims)], SubSeq(dims, 1, Len(dims) - 1)),
                flat % dims[Len(dims)])

Operand(shape, labels, elem) == [shape |-> shape, labels |-> labels, elem |-> elem]

AlgFail(err) == [err |-> err, shape |-> <<>>, index |-> <<>>]

\* np.einsum on operands given by shape and axis labels: every label has one
\* size over all operands (a size of 1 broadcasts), the result has the axes
\* named by out.  elem tells which component of an element's multi-index the
\* first axis of a basis operand enumerates.
einsum(operands, out) ==
    LET Slots == UNION {{<<o, k>> : k \in 1..Len(operands[o].labels)} :
                           o \in 1..Len(operands)}
        Sizes(l) == {operands[p[1]].shape[p[2]] :
                        p \in {q \in Slots : operands[q[1]].labels[q[2]] = l}}
        Labels == {operands[p[1]].labels[p[2]] : p \in Slots}
        Carriers(l) == {o \in 1..Len(operands) :
                           operands[o].elem > 0 /\ operands[o].labels[1] = l}
        ElemOf(l) == IF Carriers(l) = {} THEN 0
                     ELSE operands[CHOOSE o \in Carriers(l) : TRUE].elem
    IN IF \/ \E o \in 1..Len(operands) :
                Len(operands[o].shape) # Len(operands[o].labels)
          \/ \E l \in Labels : Cardinality(Sizes(l) \ {1}) > 1
       THEN AlgFail("ValueError")
       ELSE [err |-> "none",
             shape |-> [k \in 1..Len(out) |-> SetMax(Sizes(out[k]))],
             index |-> [k \in 1..Len(out) |-> ElemOf(out[k])]]

\* algebra.py:6-8: the shape of reduce(np.kron, vectors); element (x_1..x_n)
\* of the product sits at Ravel(x, DimPauli(bases)).
bases_kron(bases) ==
    <<Numel(DimPauli(bases)), Numel(DimHilbert(bases)), Numel(DimHilbert(bases))>>

\* algebra.py:27-46.  kraus is the shape of the array passed.
kraus_to_ptm(kraus, bases_in, bases_out) ==
    IF bases_in = <<>> THEN AlgFail("IndexError")
    ELSE
    LET dim == bases_in[1].dim_hilbert
        nq == Len(bases_in)
        newshape == <<kraus[1]>> \o [i \in 1..2 * nq |-> dim]
        einsum_args ==
            [i \in 1..Len(bases_out) |->
                Operand(vectors(bases_out[i]),
                        <<4 * nq + (i - 1), 2 * (i - 1), 2 * (i - 1) + 1>>, i)]
            \o <<Operand(newshape,
                         <<6 * nq>> \o [i \in 1..2 * nq |-> 2 * (i - 1) + 1], 0)>>
            \o [i \in 1..nq |->
                Operand(vectors(bases_in[i]),
                        <<5 * nq + (i - 1), 2 * (i - 1 + nq) + 1, 2 * (i - 1 + nq)>>,
                        nq + i)]
            \o <<Operand(newshape,
                         <<6 * nq>> \o [i \in 1..2 * nq |-> 2 * (i - 1)], 0)>>
        r == einsum(einsum_args, [i \in 1..2 * nq |-> 4 * nq + (i - 1)])
    IN IF nq # Len(bases_out) THEN AlgFail("ValueError")
       ELSE IF Numel(kraus) # Numel(newshape) THEN AlgFail("ValueError")
       ELSE IF r.err # "none" THEN r
       ELSE [r EXCEPT !.index =
                [e \in Indices(DimPauli(bases_out) \o DimPauli(bases_in)) |->
                    [k \in 1..Len(r.shape) |-> e[r.index[k]]]]]

\* algebra.py:49-58.  ptm is the shape of the array passed.  The einsum
\* result is the matrix (x, w) over the Kronecker products of the new bases;
\* reshape lays it out, row-major, in the shape computed up front.
ptm_convert_basis(ptm, bi_old, bo_old, bi_new, bo_new) ==
    LET shape == DimPauli(reversed(bo_new)) \o DimPauli(reversed(bi_new))
        d_in == Numel(DimPauli(bi_old))
        d_out == Numel(DimPauli(bo_old))
        r == einsum(<<Operand(bases_kron(bo_new), <<"x", "i", "j">>, 0),
                      Operand(bases_kron(bo_old), <<"y", "j", "i">>, 0),
                      Operand(<<d_out, d_in>>, <<"y", "z">>, 0),
                      Operand(bases_kron(bi_old), <<"z", "k", "l">>, 0),
                      Operand(bases_kron(bi_new), <<"w", "l", "k">>, 0)>>,
                    <<"x", "w">>)
    IN IF Numel(ptm) # d_out * d_in THEN AlgFail("ValueError")
       ELSE IF r.err # "none" THEN r
       ELSE IF Numel(r.shape) # Numel(shape) THEN AlgFail("ValueError")
       ELSE [err |-> "none", shape |-> shape,
             index |-> [e \in Indices(DimPauli(bo_new) \o DimPauli(bi_new)) |->
                          Unravel(Ravel(SubSeq(e, 1, Len(bo_new)), DimPauli(bo_new))
                                      * r.shape[2]
                                  + Ravel(SubSeq(e, Len(bo_new) + 1, Len(e)),
                                          DimPauli(bi_new)),
                                  shape)]]

\* The bases offered: general(2), its subbases of one and of two elements,
\* and the computational subbasis of general(3).
SomeBases == {Basis(2, 4), Basis(2, 1), Basis(2, 2), Basis(3, 3)}

QubitBases == {b \in SomeBases : b.dim_hilbert = 2}

Tuples(S, least, most) == UNION {[1..n -> S] : n \in least..most}

\* The Kraus arrays offered: stacks of matrices, square or not, and single
\* 2-D matrices.
KrausShapes ==
    {<<z, r, c>> : z \in 1..MaxStack, r \in {1, 2, 3, 4, 6}, c \in {1, 2, 3, 4, 6}}
    \cup {<<2, 2>>, <<4, 4>>}

\* One call of a function of algebra.py on arguments drawn from the sets
\* above; the functions keep no state, so one call per behaviour tells all.
KrausToPtm ==
    /\ ret = NoCall
    /\ \E kraus \in KrausShapes :
       \E bases_in \in Tuples(SomeBases, 0, MaxSubsystems) :
       \E bases_out \in Tuples(SomeBases, 0, MaxSubsystems) :
          LET r == kraus_to_ptm(kraus, bases_in, bases_out)
          IN ret' = Call("kraus_to_ptm", <<kraus, bases_in, bases_out>>,
                         r.err, <<r.shape, r.index>>, <<>>)
    /\ UNCHANGED <<stage, self, _ptm_cache, prev, elsewhere>>

\* The ptm passed is one over the old bases; old and new bases describe the
\* same qubits.
PtmConvertBasis ==
    /\ ret = NoCall
    /\ \E n \in 1..MaxSubsystems :
       \E bi_old \in Tuples(QubitBases, n, n) :
       \E bo_old \in Tuples(QubitBases, n, n) :
       \E bi_new \in Tuples(QubitBases, n, n) :
       \E bo_new \in Tuples(QubitBases, n, n) :
          LET ptm == DimPauli(bo_old) \o DimPauli(bi_old)
              r == ptm_convert_basis(ptm, bi_old, bo_old, bi_new, bo_new)
          IN ret' = Call("ptm_convert_basis",
                         <<ptm, bi_old, bo_old, bi_new, bo_new>>,
                         r.err, <<r.shape, r.index>>, <<>>)
    /\ UNCHANGED <<stage, self, _ptm_cache, prev, elsewhere>>

NextAlgebra == KrausToPtm \/ PtmConvertBasis

SpecAlgebra == Init /\ [][NextAlgebra]_vars

\* --------------------------------------------------- operations/operation.py
\* The Operation class is known by its tests (test/test_operations.py), by
\* its callers (operations/qubits.py) and by its description.  An Operation
\* holds the Kraus stack it was built from (its shape), the dim_hilbert of
\* the subsystems it acts on, and the cache of the PTMs computed, keyed by
\* the pair of basis tuples.
MaxCached == 2

\* An argument as passed: a tuple of bases, a bare Basis, or None.
TupleArg(bases) == [type |-> "tuple", value |-> bases]

BasisArg(b) == [type |-> "Basis", value |-> <<b>>]

NoneArg == [type |-> "None", value |-> <<>>]

OpFail(op, err) == [operation |-> op, err |-> err, shape |-> <<>>]

\* from_kraus(matrix, bases): a single matrix becomes a stack of one; an
\* array of any other rank, a stack of matrices that are not square, or of a
\* side other than the product of the subsystems' dimensions, is refused.
from_kraus(matrix, bases) ==
    LET kraus == IF Len(matrix) = 2 THEN <<1>> \o matrix ELSE matrix
    IN IF Len(kraus) # 3 THEN OpFail(NoOperation, "ValueError")
       ELSE IF kraus[2] # kraus[3] THEN OpFail(NoOperation, "ValueError")
       ELSE IF kraus[2] # Numel(DimHilbert(bases))
       THEN OpFail(NoOperation, "ValueError")
       ELSE [operation |-> [kind |-> "Kraus", kraus |-> kraus,
                            dim_hilbert |-> DimHilbert(bases),
                            _ptm_cache |-> {}],
             err |-> "none", shape |-> <<>>]

\* Whether ptm() refuses the argument for not being a tuple.
should_be_tuple_never(arg) == FALSE

should_be_tuple(arg) == arg.type # "tuple"

\* Operation.ptm(bases_in, bases_out=None).
Operation_ptm(op, bases_in, bases_out) ==
    LET bi == bases_in.value
        bo == IF bases_out.type = "None" THEN bi ELSE bases_out.value
        key == <<bi, bo>>
        r == kraus_to_ptm(op.kraus, bi, bo)
    IN IF should_be_tuple(bases_in) THEN OpFail(op, "ValueError")
       ELSE IF bases_out.type # "None" /\ should_be_tuple(bases_out)
       THEN OpFail(op, "ValueError")
       ELSE IF DimHilbert(bi) # op.dim_hilbert \/ DimHilbert(bo) # op.dim_hilbert
       THEN OpFail(op, "ValueError")
       ELSE IF key \in op._ptm_cache
       THEN [operation |-> op, err |-> "none",
             shape |-> DimPauli(bo) \o DimPauli(bi)]
       ELSE IF r.err # "none" THEN OpFail(op, r.err)
       ELSE [operation |-> [op EXCEPT !._ptm_cache = @ \cup {key}],
             err |-> "none", shape |-> r.shape]

\* The operations built: on one qubit, from a matrix or from a stack of two,
\* and on two qubits.
FromKraus ==
    /\ operation = NoOperation
    /\ \E a \in {<<<<2, 2>>, 1>>, <<<<2, 2, 2>>, 1>>, <<<<4, 4>>, 2>>} :
          LET r == from_kraus(a[1], [i \in 1..a[2] |-> Basis(2, 4)])
          IN /\ operation' = r.operation
             /\ ret' = Call("from_kraus", <<a[1], a[2]>>, r.err, <<>>, <<>>)
    /\ UNCHANGED <<stage, self, _ptm_cache, prev, frames>>

\* The bases passed to ptm(): tuples of one or two bases, of qubits and of
\* qutrits, and bare bases.
PtmArgs ==
    {TupleArg(bs) : bs \in Tuples({Basis(2, 4), Basis(2, 2), Basis(3, 3)}, 1, 2)}
    \cup {BasisArg(Basis(2, 4)), BasisArg(Basis(3, 3))}

OperationPtm ==
    /\ operation # NoOperation
    /\ Cardinality(operation._ptm_cache) <= MaxCached
    /\ \E bases_in \in PtmArgs :
       \E bases_out \in {NoneArg, BasisArg(Basis(2, 4)),
                         TupleArg([i \in 1..Len(bases_in.value) |-> Basis(2, 4)])} :
          LET r == Operation_ptm(operation, bases_in, bases_out)
          IN /\ operation' = r.operation
             /\ ret' = Call("ptm", <<bases_in, bases_out>>, r.err,
                            <<r.shape>>, <<>>)
    /\ UNCHANGED <<stage, self, _ptm_cache, prev, frames>>

NextOperation == FromKraus \/ OperationPtm

SpecOperation == Init /\ [][NextOperation]_vars

\* ------------------------------------------------------------- exact numbers
\* The arrays of algebra.py and of operations/qubits.py hold numbers built
\* from integers, sqrt(2), halves and i.  R(a, b, e) is (a + b*sqrt(2)) / 2^e,
\* kept in lowest terms; a complex number is a pair [re, im] of these.
RECURSIVE Lowest(_, _, _)
Lowest(a, b, e) ==
    IF e > 0 /\ a % 2 = 0 /\ b % 2 = 0 THEN Lowest(a \div 2, b \div 2, e - 1)
    ELSE [a |-> a, b |-> b, e |-> e]

R(a, b, e) == Lowest(a, b, e)

RAdd(u, v) ==
    LET e == Max(u.e, v.e)
    IN R(u.a * 2^(e - u.e) + v.a * 2^(e - v.e),
         u.b * 2^(e - u.e) + v.b * 2^(e - v.e), e)

RNeg(u) == R(-u.a, -u.b, u.e)

RMul(u, v) == R(u.a * v.a + 2 * u.b * v.b, u.a * v.b + u.b * v.a, u.e + v.e)

Cx(re, im) == [re |-> re, im |-> im]

\* 0, 1, i and 1/sqrt(2) = sqrt(2)/2
Czero == Cx(R(0, 0, 0), R(0, 0, 0))

Cone == Cx(R(1, 0, 0), R(0, 0, 0))

Cimag == Cx(R(0, 0, 0), R(1, 0, 0))

Csqrt_half == Cx(R(0, 1, 1), R(0, 0, 0))

CAdd(u, v) == Cx(RAdd(u.re, v.re), RAdd(u.im, v.im))

CMul(u, v) ==
    Cx(RAdd(RMul(u.re, v.re), RNeg(RMul(u.im, v.im))),
       RAdd(RMul(u.re, v.im), RMul(u.im, v.re)))

CNeg(u) == Cx(RNeg(u.re), RNeg(u.im))

conj(u) == Cx(u.re, RNeg(u.im))

\* The sum of a sequence, by halves.
RECURSIVE CSum(_)
CSum(s) ==
    IF Len(s) = 0 THEN Czero
    ELSE IF Len(s) = 1 THEN s[1]
    ELSE CAdd(CSum(SubSeq(s, 1, Len(s) \div 2)),
              CSum(SubSeq(s, Len(s) \div 2 + 1, Len(s))))

\* A 2x2 matrix is the tuple of its rows.
Mat(a, b, c, d) == <<<<a, b>>, <<c, d>>>>

Scaled(c, m) == [i \in 1..2 |-> [j \in 1..2 |-> CMul(c, m[i][j])]]

MatMul(m, n) ==
    [i \in 1..2 |-> [j \in 1..2 |->
        CAdd(CMul(m[i][1], n[1][j]), CMul(m[i][2], n[2][j]))]]

Dagger(m) == [i \in 1..2 |-> [j \in 1..2 |-> conj(m[j][i])]]

Tr(m) == CAdd(m[1][1], m[2][2])

\* The vectors of the two full bases of a qubit, orthonormal under Tr(A B):
\* general(2) = (|0><0|, |1><1|, X/sqrt(2), Y/sqrt(2)) and
\* gell_mann(2) = (I, X, Y, Z)/sqrt(2).
general2 ==
    <<Mat(Cone, Czero, Czero, Czero), Mat(Czero, Czero, Czero, Cone),
      Scaled(Csqrt_half, Mat(Czero, Cone, Cone, Czero)),
      Scaled(Csqrt_half, Mat(Czero, CNeg(Cimag), Cimag, Czero))>>

gell_mann2 ==
    <<Scaled(Csqrt_half, Mat(Cone, Czero, Czero, Cone)),
      Scaled(Csqrt_half, Mat(Czero, Cone, Cone, Czero)),
      Scaled(Csqrt_half, Mat(Czero, CNeg(Cimag), Cimag, Czero)),
      Scaled(Csqrt_half, Mat(Cone, Czero, Czero, CNeg(Cone)))>>

\* algebra.py:27-46 for one subsystem, on values: entry (x, y) is the real
\* part of the sum over z of Tr(out[x] K_z in[y] K_z^dagger).
kraus_to_ptm_1(kraus, basis_in, basis_out) ==
    [x \in 1..Len(basis_out) |-> [y \in 1..Len(basis_in) |->
        CSum([z \in 1..Len(kraus) |->
                 Tr(MatMul(MatMul(basis_out[x], kraus[z]),
                           MatMul(basis_in[y], Dagger(kraus[z]))))]).re]]

\* ptm_convert_basis_1 with the ptm read transposed ("zy" for "yz").
ptm_convert_basis_1_transposed(ptm, bi_old, bo_old, bi_new, bo_new) ==
    [x \in 1..Len(bo_new) |-> [w \in 1..Len(bi_new) |->
        CSum([k \in 1..(Len(bo_old) * Len(bi_old)) |->
                 LET y == ((k - 1) \div Len(bi_old)) + 1
                     z == ((k - 1) % Len(bi_old)) + 1
                 IN CMul(CMul(Tr(MatMul(bo_new[x], bo_old[y])),
                              Cx(ptm[z][y], R(0, 0, 0))),
                         Tr(MatMul(bi_old[z], bi_new[w])))]).re]]

\* algebra.py:49-58 for one subsystem, on values: entry (x, w) is the real
\* part of the sum over y, z of Tr(new_out[x] old_out[y]) ptm[y, z]
\* Tr(old_in[z] new_in[w]).
ptm_convert_basis_1(ptm, bi_old, bo_old, bi_new, bo_new) ==
    [x \in 1..Len(bo_new) |-> [w \in 1..Len(bi_new) |->
        CSum([k \in 1..(Len(bo_old) * Len(bi_old)) |->
                 LET y == ((k - 1) \div Len(bi_old)) + 1
                     z == ((k - 1) % Len(bi_old)) + 1
                 IN CMul(CMul(Tr(MatMul(bo_new[x], bo_old[y])),
                              Cx(ptm[y][z], R(0, 0, 0))),
                         Tr(MatMul(bi_old[z], bi_new[w])))]).re]]

\* The Kraus sets offered: every matrix with entries 0, 1, i or 1/sqrt(2)
\* whose first entry is 0 or 1, and amplitude damping at rate 1/2.
KrausSets ==
    {<<Mat(a, b, c, d)>> : a \in {Czero, Cone}, b \in {Czero, Cone, Cimag},
                           c \in {Czero, Cone, Cimag, Csqrt_half}, d \in {Czero, Cone, Cimag, Csqrt_half}}
    \cup {<<Mat(Cone, Czero, Czero, Csqrt_half), Mat(Czero, Csqrt_half, Czero, Czero)>>}

FullBases == {"general", "gell_mann"}

Vectors(name) == IF name = "general" THEN general2 ELSE gell_mann2

\* kraus_to_ptm in B1, converted to B2, next to kraus_to_ptm in B2.
ConvertPtmBasis ==
    /\ ret = NoCall
    /\ \E kraus \in KrausSets : \E B1 \in FullBases : \E B2 \in FullBases :
          LET ptm == kraus_to_ptm_1(kraus, Vectors(B1), Vectors(B1))
          IN ret' = Call("convert_ptm_basis", <<kraus, B1, B2>>, "none",
                         <<ptm_convert_basis_1(ptm, Vectors(B1), Vectors(B1),
                                               Vectors(B2), Vectors(B2)),
                           kraus_to_ptm_1(kraus, Vectors(B2), Vectors(B2)),
                           ptm>>,
                         <<>>)
    /\ UNCHANGED <<stage, self, _ptm_cache, prev, elsewhere>>

\* ------------------------------------------------ operations/qubits.py
\* The Kraus operators of the noise channels have entries sqrt(q) * i^k with
\* q rational.  An entry is kept as its square modulus, a fraction in lowest
\* terms, and its phase k; a rate is a multiple of 1/RateDen.
RateDen == 4

RECURSIVE GCD(_, _)
GCD(m, n) == IF n = 0 THEN m ELSE GCD(n, m % n)

Q(n, d) == [n |-> n \div GCD(n, d), d |-> d \div GCD(n, d)]

QAdd(u, v) == Q(u.n * v.d + v.n * u.d, u.d * v.d)

QSub(u, v) == Q(u.n * v.d - v.n * u.d, u.d * v.d)

QMul(u, v) == Q(u.n * v.n, u.d * v.d)

RECURSIVE QSum(_)
QSum(s) == IF s = <<>> THEN Q(0, 1) ELSE QAdd(Head(s), QSum(Tail(s)))

Entry(sq, ph) == [sq |-> sq, ph |-> ph]

Ezero == Entry(Q(0, 1), 0)

Eone == Entry(Q(1, 1), 0)

\* np.sqrt(w) as a number, and np.sqrt(w) * matrix
sqrt(w) == Entry(w, 0)

Times(c, m) ==
    [i \in 1..2 |-> [j \in 1..2 |->
        Entry(QMul(c.sq, m[i][j].sq), (c.ph + m[i][j].ph) % 4)]]

\* qubits.py:5.  The vectors of gell_mann(2): (I, X, Y, Z) times sqrt(norm),
\* norm = 1/2 for the orthonormal basis.
_PAULI(norm) ==
    [I |-> Times(sqrt(norm), <<<<Eone, Ezero>>, <<Ezero, Eone>>>>),
     X |-> Times(sqrt(norm), <<<<Ezero, Eone>>, <<Eone, Ezero>>>>),
     Y |-> Times(sqrt(norm), <<<<Ezero, Entry(Q(1, 1), 3)>>,
                               <<Entry(Q(1, 1), 1), Ezero>>>>),
     Z |-> Times(sqrt(norm), <<<<Eone, Ezero>>, <<Ezero, Entry(Q(1, 1), 2)>>>>)]

\* qubits.py:182-186
amp_damping(total_rate, norm) ==
    <<<<<<Eone, Ezero>>, <<Ezero, sqrt(QSub(Q(1, 1), total_rate))>>>>,
      <<<<Ezero, sqrt(total_rate)>>, <<Ezero, Ezero>>>>>>

\* qubits.py:201-206
phase_damping(total_rate, norm) ==
    <<<<<<Eone, Ezero>>, <<Ezero, sqrt(QSub(Q(1, 1), total_rate))>>>>,
      <<<<Ezero, Ezero>>, <<Ezero, sqrt(total_rate)>>>>>>

\* qubits.py:223-226
bit_flipping(flip_rate, norm) ==
    <<Times(sqrt(flip_rate), _PAULI(norm).I),
      Times(sqrt(QSub(Q(1, 1), flip_rate)), _PAULI(norm).X)>>

\* qubits.py:229-233
phase_flipping(flip_rate, norm) ==
    <<Times(sqrt(flip_rate), _PAULI(norm).I),
      Times(sqrt(QSub(Q(1, 1), flip_rate)), _PAULI(norm).Z)>>

\* qubits.py:236-239
bit_phase_flipping(flip_rate, norm) ==
    <<Times(sqrt(flip_rate), _PAULI(norm).I),
      Times(sqrt(QSub(Q(1, 1), flip_rate)), _PAULI(norm).Y)>>

\* qubits.py:242-249
depolarization(rate0, norm) ==
    LET rate == QMul(rate0, Q(1, 2))
    IN <<Times(sqrt(QSub(Q(2, 1), QMul(Q(3, 1), rate))), _PAULI(norm).I),
         Times(sqrt(rate), _PAULI(norm).X),
         Times(sqrt(rate), _PAULI(norm).Y),
         Times(sqrt(rate), _PAULI(norm).Z)>>

Channels ==
    {"amp_damping", "phase_damping", "bit_flipping", "phase_flipping",
     "bit_phase_flipping", "depolarization"}

KrausOf(name, rate, norm) ==
    CASE name = "amp_damping" -> amp_damping(rate, norm)
      [] name = "phase_damping" -> phase_damping(rate, norm)
      [] name = "bit_flipping" -> bit_flipping(rate, norm)
      [] name = "phase_flipping" -> phase_flipping(rate, norm)
      [] name = "bit_phase_flipping" -> bit_phase_flipping(rate, norm)
      [] OTHER -> depolarization(rate, norm)

\* sum_z K_z^dagger K_z: its two diagonal entries, and whether its
\* off-diagonal entry, the sum over z and r of conj(K_z[r][1]) K_z[r][2],
\* is zero: each term is zero, or the terms cancel in pairs of equal
\* modulus and opposite phase.
KdagK(kraus) ==
    LET Rows == {<<z, r>> : z \in 1..Len(kraus), r \in 1..2}
        diagonal(j) ==
            QSum([z \in 1..Len(kraus) |->
                     QAdd(kraus[z][1][j].sq, kraus[z][2][j].sq)])
        modulus(p) == QMul(kraus[p[1]][p[2]][1].sq, kraus[p[1]][p[2]][2].sq)
        phase(p) == (kraus[p[1]][p[2]][2].ph - kraus[p[1]][p[2]][1].ph + 4) % 4
        Terms == {p \in Rows : modulus(p).n # 0}
    IN <<diagonal(1), diagonal(2),
         \A p \in Terms :
            Cardinality({q \in Terms : modulus(q) = modulus(p) /\ phase(q) = phase(p)})
            = Cardinality({q \in Terms : modulus(q) = modulus(p)
                                          /\ phase(q) = (phase(p) + 2) % 4})>>

\* A noise channel built at a rate in [0, 1].  The vectors of gell_mann(2)
\* are taken orthonormal (norm 1/2), and as the plain Pauli matrices.
NoiseChannel ==
    /\ ret = NoCall
    /\ \E name \in Channels : \E k \in 0..RateDen : \E norm \in {Q(1, 2), Q(1, 1)} :
          ret' = Call(name, <<Q(k, RateDen), norm>>, "none",
                      KdagK(KrausOf(name, Q(k, RateDen), norm)), <<>>)
    /\ UNCHANGED <<stage, self, _ptm_cache, prev, elsewhere>>

\* ---------------------------------------------- two-qubit operations
\* A 4x4 matrix is the tuple of its rows, row and column index 2*q0 + q1;
\* a two-qubit PTM is the nested tuple ptm[x0][x1][y0][y1] of shape (4,4,4,4).
Tuple4(F(_)) == <<F(1), F(2), F(3), F(4)>>

Kron(m, n) ==
    Tuple4(LAMBDA i : Tuple4(LAMBDA j :
        CMul(m[((i - 1) \div 2) + 1][((j - 1) \div 2) + 1],
             n[((i - 1) % 2) + 1][((j - 1) % 2) + 1])))

MatMul4(m, n) ==
    Tuple4(LAMBDA i : Tuple4(LAMBDA j :
        CSum(<<CMul(m[i][1], n[1][j]), CMul(m[i][2], n[2][j]),
               CMul(m[i][3], n[3][j]), CMul(m[i][4], n[4][j])>>)))

\* cnot with the target's two rows exchanged for the control's.
cnot_cycle ==
    <<<<Cone, Czero, Czero, Czero>>,
      <<Czero, Czero, Cone, Czero>>,
      <<Czero, Czero, Czero, Cone>>,
      <<Czero, Cone, Czero, Czero>>>>

\* cnot with subsystem 1 as the control.
cnot_reversed ==
    <<<<Cone, Czero, Czero, Czero>>,
      <<Czero, Czero, Czero, Cone>>,
      <<Czero, Czero, Cone, Czero>>,
      <<Czero, Cone, Czero, Czero>>>>

\* qubits.py:147-152
cnot ==
    <<<<Cone, Czero, Czero, Czero>>,
      <<Czero, Cone, Czero, Czero>>,
      <<Czero, Czero, Czero, Cone>>,
      <<Czero, Czero, Cone, Czero>>>>

\* qubits.py:109-123 at angle pi, and qubits.py:126-144 at angle pi/2
cphase ==
    <<<<Cone, Czero, Czero, Czero>>,
      <<Czero, Cone, Czero, Czero>>,
      <<Czero, Czero, Cone, Czero>>,
      <<Czero, Czero, Czero, CNeg(Cone)>>>>

iswap ==
    <<<<Cone, Czero, Czero, Czero>>,
      <<Czero, Czero, Cimag, Czero>>,
      <<Czero, Cimag, Czero, Czero>>,
      <<Czero, Czero, Czero, Cone>>>>

TwoQubitOps == {"cnot", "cphase", "iswap"}

KrausMatrix(name) ==
    CASE name = "cnot" -> cnot [] name = "cphase" -> cphase [] OTHER -> iswap

\* algebra.py:27-46 for one Kraus matrix on two subsystems, on values:
\* entry [x0][x1][y0][y1] is the real part of
\* Tr((out0[x0] (x) out1[x1]) K (in0[y0] (x) in1[y1]) K^dagger).
kraus_to_ptm_2(kraus, bases_in, bases_out) ==
    LET Kdagger == Tuple4(LAMBDA i : Tuple4(LAMBDA j : conj(kraus[j][i])))
        KinK == Tuple4(LAMBDA y0 : Tuple4(LAMBDA y1 :
                    MatMul4(MatMul4(kraus, Kron(bases_in[1][y0], bases_in[2][y1])),
                            Kdagger)))
        Bout == Tuple4(LAMBDA x0 : Tuple4(LAMBDA x1 :
                    Kron(bases_out[1][x0], bases_out[2][x1])))
        TrProd(m, n) ==
            CSum([k \in 1..16 |-> CMul(m[((k - 1) \div 4) + 1][((k - 1) % 4) + 1],
                                       n[((k - 1) % 4) + 1][((k - 1) \div 4) + 1])])
    IN Tuple4(LAMBDA x0 : Tuple4(LAMBDA x1 : Tuple4(LAMBDA y0 : Tuple4(LAMBDA y1 :
           TrProd(Bout[x0][x1], KinK[y0][y1]).re))))

\* Operation.at(i, j): the operation's subsystems 0 and 1 placed on the
\* subsystems i and j of the pair.
at(ptm, indices) ==
    IF indices = <<0, 1>> THEN ptm
    ELSE Tuple4(LAMBDA x0 : Tuple4(LAMBDA x1 : Tuple4(LAMBDA y0 : Tuple4(LAMBDA y1 :
             ptm[x1][x0][y1][y0]))))

\* Operation.from_sequence(first, second): the PTMs multiplied in time
\* order, the operation applied last on the left.
from_sequence(first, second) ==
    Tuple4(LAMBDA x0 : Tuple4(LAMBDA x1 : Tuple4(LAMBDA y0 : Tuple4(LAMBDA y1 :
        CSum([k \in 1..16 |->
                 Cx(RMul(second[x0][x1][((k - 1) \div 4) + 1][((k - 1) % 4) + 1],
                         first[((k - 1) \div 4) + 1][((k - 1) % 4) + 1][y0][y1]),
                    R(0, 0, 0))]).re))))

identity_ptm ==
    Tuple4(LAMBDA x0 : Tuple4(LAMBDA x1 : Tuple4(LAMBDA y0 : Tuple4(LAMBDA y1 :
        IF x0 = y0 /\ x1 = y1 THEN R(1, 0, 0) ELSE R(0, 0, 0)))))

\* Two library operations on one pair of qubits, the first on (0, 1), one
\* after the other; the PTM of the sequence and of the first alone.
FromSequence ==
    /\ ret = NoCall
    /\ \E op1 \in TwoQubitOps : \E op2 \in TwoQubitOps :
       \E indices \in {<<0, 1>>, <<1, 0>>} : \E B \in FullBases :
          LET bases == <<Vectors(B), Vectors(B)>>
              first == kraus_to_ptm_2(KrausMatrix(op1), bases, bases)
              second == at(kraus_to_ptm_2(KrausMatrix(op2), bases, bases), indices)
          IN ret' = Call("from_sequence", <<op1, op2, indices, B>>, "none",
                         <<from_sequence(first, second), first>>, <<>>)
    /\ UNCHANGED <<stage, self, _ptm_cache, prev, elsewhere>>

NextValues == ConvertPtmBasis \/ NoiseChannel \/ FromSequence

SpecValues == Init /\ [][NextValues]_vars

\* ------------------------------------------- optimal_bases and compile
\* A subbasis of general(2) is the ascending tuple of the indices it keeps:
\* b0 = subbasis([0]), b1 = subbasis([1]), b01 = subbasis([0, 1]), b.
b0 == <<1>>

b1 == <<2>>

b01 == <<1, 2>>

b == <<1, 2, 3, 4>>

SubBases == {b0, b1, b01, <<1, 2, 3>>, <<3, 4>>, b}

Range(s) == {s[i] : i \in 1..Len(s)}

\* The ascending tuple of a set of indices.
RECURSIVE Ascending(_)
Ascending(S) ==
    IF S = {} THEN <<>>
    ELSE LET m == CHOOSE x \in S : \A y \in S : x <= y
         IN <<m>> \o Ascending(S \ {m})

\* qubits.py:152: Operation.from_kraus(matrix, bases2_default), the PTM
\* kept in the default bases.
library_operation(name, matrix) ==
    [kind |-> "library", name |-> name,
     ptm |-> kraus_to_ptm_2(matrix, <<general2, general2>>, <<general2, general2>>)]

\* Operation.optimal_bases(bases_in): the input elements that contribute
\* to some output element, and the output elements that receive a
\* contribution from a kept input element.
optimal_bases(op, bases_in) ==
    LET Zero == R(0, 0, 0)
        in0 == {y0 \in Range(bases_in[1]) :
                   \E y1 \in Range(bases_in[2]), x0, x1 \in 1..4 :
                       op.ptm[x0][x1][y0][y1] # Zero}
        in1 == {y1 \in Range(bases_in[2]) :
                   \E y0 \in Range(bases_in[1]), x0, x1 \in 1..4 :
                       op.ptm[x0][x1][y0][y1] # Zero}
        out0 == {x0 \in 1..4 : \E x1 \in 1..4, y0 \in in0, y1 \in in1 :
                                  op.ptm[x0][x1][y0][y1] # Zero}
        out1 == {x1 \in 1..4 : \E x0 \in 1..4, y0 \in in0, y1 \in in1 :
                                  op.ptm[x0][x1][y0][y1] # Zero}
    IN <<<<Ascending(in0), Ascending(in1)>>, <<Ascending(out0), Ascending(out1)>>>>

\* Operation.compile(bases_in): the PTM in the optimal bases.
compile(op, bases_in) ==
    LET ob == optimal_bases(op, bases_in)
    IN [x0 \in 1..Len(ob[2][1]) |-> [x1 \in 1..Len(ob[2][2]) |->
       [y0 \in 1..Len(ob[1][1]) |-> [y1 \in 1..Len(ob[1][2]) |->
           op.ptm[ob[2][1][x0]][ob[2][2][x1]][ob[1][1][y0]][ob[1][2][y1]]]]]]

\* ndarray.shape of a non-empty kernel
shape_of(kernel) ==
    <<Len(kernel), Len(kernel[1]), Len(kernel[1][1]), Len(kernel[1][1][1])>>

\* lib.cnot(), lib.cphase(), lib.iswap()
Library ==
    /\ operation = NoOperation
    /\ \E name \in TwoQubitOps :
          operation' = library_operation(name, KrausMatrix(name))
    /\ UNCHANGED <<stage, self, _ptm_cache, ret, prev, frames>>

\* op.optimal_bases(bases_in=b_in) and op.compile(bases_in=b_in)
OptimalBases ==
    /\ operation.kind = "library"
    /\ ret = NoCall
    /\ \E in0 \in SubBases : \E in1 \in SubBases :
          ret' = Call("optimal_bases", <<operation.name, <<in0, in1>>>>, "none",
                      <<optimal_bases(operation, <<in0, in1>>),
                        compile(operation, <<in0, in1>>)>>, <<>>)
    /\ UNCHANGED <<stage, self, _ptm_cache, prev, elsewhere>>

NextCompile == Library \/ OptimalBases

SpecCompile == Init /\ [][NextCompile]_vars

\* ------------------------------------------- apply_ptm from two threads
\* dm10.py:258-267 run by Threads threads, each on a Density of its own and
\* with a valid bit, sharing the class-level _ptm_cache (dm10.py:69).  A
\* thread may be preempted between any two of the steps lookup, validate,
\* insert, re-read and dispatch; one dictionary operation is atomic.  A frame
\* is the position and the locals of one thread; a device copy is tagged
\* with the thread that made it.
Threads == 2

MaxCalls == 2

ThreadPtms == Ptms \cup {Array(<<4, 4>>, "float64", "Z")}

Idle(calls) ==
    [pc |-> "idle", ptm |-> None, key |-> None, ptm_gpu |-> None,
     missed |-> FALSE, calls |-> calls]

\* One step of the frame f of thread t, with the cache evicted down to the
\* new entry on insertion.
apply_ptm_step_evict(t, f, cache) ==
    CASE f.pc = "lookup" ->
            IF f.key \in DOMAIN cache
            THEN [frame |-> [f EXCEPT !.pc = "dispatch", !.ptm_gpu = cache[f.key]],
                  cache |-> cache]
            ELSE [frame |-> [f EXCEPT !.pc = "validate", !.missed = TRUE],
                  cache |-> cache]
      [] f.pc = "validate" ->
            [frame |-> [f EXCEPT !.pc = IF _validate_ptm(f.ptm, <<4, 4>>)
                                        THEN "ValueError" ELSE "insert"],
             cache |-> cache]
      [] f.pc = "insert" ->
            [frame |-> [f EXCEPT !.pc = "reread"],
             cache |-> [k \in {f.key} |-> [array |-> to_gpu(f.ptm), by |-> t]]]
      [] f.pc = "reread" ->
            IF f.key \in DOMAIN cache
            THEN [frame |-> [f EXCEPT !.pc = "dispatch", !.ptm_gpu = cache[f.key]],
                  cache |-> cache]
            ELSE [frame |-> [f EXCEPT !.pc = "KeyError"], cache |-> cache]
      [] OTHER -> [frame |-> [f EXCEPT !.pc = "done"], cache |-> cache]

\* One step of the frame f of thread t:
\*   lookup    ptm_gpu = self._ptm_cache[key], KeyError on a miss   (262-264)
\*   validate  self._validate_ptm(ptm, (4, 4), 'ptm')               (265)
\*   insert    self._ptm_cache[key] = ga.to_gpu(ptm)                (266)
\*   reread    ptm_gpu = self._ptm_cache[key]                       (267)
\*   dispatch  the kernel call with ptm_gpu.gpudata                 (269-278)
apply_ptm_step(t, f, cache) ==
    CASE f.pc = "lookup" ->
            IF f.key \in DOMAIN cache
            THEN [frame |-> [f EXCEPT !.pc = "dispatch", !.ptm_gpu = cache[f.key]],
                  cache |-> cache]
            ELSE [frame |-> [f EXCEPT !.pc = "validate", !.missed = TRUE],
                  cache |-> cache]
      [] f.pc = "validate" ->
            [frame |-> [f EXCEPT !.pc = IF _validate_ptm(f.ptm, <<4, 4>>)
                                        THEN "ValueError" ELSE "insert"],
             cache |-> cache]
      [] f.pc = "insert" ->
            [frame |-> [f EXCEPT !.pc = "reread"],
             cache |-> [k \in DOMAIN cache \cup {f.key} |->
                           IF k = f.key THEN [array |-> to_gpu(f.ptm), by |-> t]
                           ELSE cache[k]]]
      [] f.pc = "reread" ->
            IF f.key \in DOMAIN cache
            THEN [frame |-> [f EXCEPT !.pc = "dispatch", !.ptm_gpu = cache[f.key]],
                  cache |-> cache]
            ELSE [frame |-> [f EXCEPT !.pc = "KeyError"], cache |-> cache]
      [] OTHER -> [frame |-> [f EXCEPT !.pc = "done"], cache |-> cache]

Returned(f) == f.pc \in {"idle", "done", "ValueError", "KeyError"}

StartThreads ==
    /\ frames = NoFrames
    /\ frames' = [t \in 1..Threads |-> Idle(0)]
    /\ UNCHANGED <<stage, self, _ptm_cache, ret, prev, operation>>

\* Thread t calls apply_ptm(bit, ptm): key = hash(ptm.tobytes()), line 261.
ThreadCall(t) ==
    /\ frames # NoFrames
    /\ Returned(frames[t])
    /\ frames[t].calls < MaxCalls
    /\ \E ptm \in ThreadPtms :
          frames' = [frames EXCEPT ![t] =
                        [pc |-> "lookup", ptm |-> ptm, key |-> tobytes(ptm),
                         ptm_gpu |-> None, missed |-> FALSE,
                         calls |-> frames[t].calls + 1]]
    /\ UNCHANGED <<stage, self, _ptm_cache, ret, prev, operation>>

ThreadStep(t) ==
    /\ frames # NoFrames
    /\ ~Returned(frames[t])
    /\ LET r == apply_ptm_step(t, frames[t], _ptm_cache)
       IN /\ frames' = [frames EXCEPT ![t] = r.frame]
          /\ _ptm_cache' = r.cache
    /\ UNCHANGED <<stage, self, ret, prev, operation>>

NextThreads ==
    \/ StartThreads
    \/ \E t \in 1..Threads : ThreadCall(t) \/ ThreadStep(t)

SpecThreads == Init /\ [][NextThreads]_vars

\* ------------------------------- controlled_unitary, controlled_rotation
\* A numpy array is its shape and the function from index tuples (counted
\* from 0) to elements.
ndarray(m) ==
    [shape |-> <<Len(m), Len(m[1])>>,
     at |-> [ix \in (0..Len(m) - 1) \X (0..Len(m[1]) - 1) |-> m[ix[1] + 1][ix[2] + 1]]]

\* np.eye(2) and np.zeros((rows, columns))
np_eye == ndarray(Mat(Cone, Czero, Czero, Cone))

np_zeros(rows, columns) ==
    [shape |-> <<rows, columns>>,
     at |-> [ix \in (0..rows - 1) \X (0..columns - 1) |-> Czero]]

\* np.array([[a, b], [c, d]]) of four arrays of one shape: the arrays are
\* stacked along two new leading axes.
np_array(blocks) ==
    LET inner == blocks[1][1].shape
    IN [shape |-> <<2, 2>> \o inner,
        at |-> [ix \in {<<i, j>> \o e : i \in 0..1, j \in 0..1, e \in DOMAIN blocks[1][1].at} |->
                   blocks[ix[1] + 1][ix[2] + 1].at[SubSeq(ix, 3, Len(ix))]]]

\* qubits.py:7-8
bases2_default == <<Basis(2, 4), Basis(2, 4)>>

\* qubits.py:155-164
controlled_unitary(unitary) ==
    LET dim_hilbert == unitary.shape[1]
        control_block == np_eye
        off_diag_block_0 == np_zeros(2, dim_hilbert)
        off_diag_block_1 == np_zeros(dim_hilbert, 2)
        matrix == np_array(<<<<control_block, off_diag_block_0>>,
                             <<off_diag_block_1, unitary>>>>)
        r == from_kraus(matrix.shape, bases2_default)
    IN IF unitary.shape # <<dim_hilbert, dim_hilbert>>
       THEN [operation |-> NoOperation, err |-> "ValueError", matrix |-> <<>>]
       ELSE [operation |-> r.operation, err |-> r.err, matrix |-> matrix]

\* np.cos(angle / 2) and np.sin(angle / 2) for angle = k * pi / 2
cos_half(k) ==
    CASE k = 0 -> Cone [] k = 1 -> Csqrt_half [] k = 2 -> Czero
      [] k = 3 -> CNeg(Csqrt_half) [] OTHER -> CNeg(Cone)

sin_half(k) ==
    CASE k = 0 -> Czero [] k = 1 -> Csqrt_half [] k = 2 -> Cone
      [] k = 3 -> Csqrt_half [] OTHER -> Czero

\* qubits.py:168-176: the matrix of the rotation, for a valid axis
rotation(k, axis) ==
    LET sin == sin_half(k)
        cos == cos_half(k)
        exp == CAdd(cos, CNeg(CMul(Cimag, sin)))
    IN CASE axis = "x" -> Mat(cos, CNeg(CMul(Cimag, sin)), CNeg(CMul(Cimag, sin)), cos)
         [] axis = "y" -> Mat(cos, CNeg(sin), sin, cos)
         [] OTHER -> Mat(exp, Czero, Czero, conj(exp))

\* qubits.py:167-179
controlled_rotation(k, axis) ==
    IF axis \notin {"x", "y", "z"}
    THEN [operation |-> NoOperation, err |-> "ValueError", matrix |-> <<>>]
    ELSE controlled_unitary(ndarray(rotation(k, axis)))

\* The arrays passed as unitary: 2x2 matrices, and arrays that are not square.
Unitaries ==
    {ndarray(kraus[1]) : kraus \in {s \in KrausSets : Len(s) = 1}}
    \cup {np_zeros(2, 3), np_zeros(3, 2), np_zeros(1, 2)}

ControlledUnitary ==
    /\ ret = NoCall
    /\ \E unitary \in Unitaries :
          LET r == controlled_unitary(unitary)
          IN /\ operation' = r.operation
             /\ ret' = Call("controlled_unitary", <<unitary>>, r.err,
                            <<r.matrix, unitary>>, <<>>)
    /\ UNCHANGED <<stage, self, _ptm_cache, prev, frames>>

ControlledRotation ==
    /\ ret = NoCall
    /\ \E k \in 0..4 : \E axis \in {"x", "y", "z", "w"} :
          LET r == controlled_rotation(k, axis)
          IN /\ operation' = r.operation
             /\ ret' = Call("controlled_rotation", <<k, axis>>, r.err,
                            <<r.matrix, ndarray(rotation(k, axis))>>, <<>>)
    /\ UNCHANGED <<stage, self, _ptm_cache, prev, frames>>

NextControlled == ControlledUnitary \/ ControlledRotation

SpecControlled == Init /\ [][NextControlled]_vars

\* ------------------------------------------------------------------ claims
IndexOps == {"apply_ptm", "apply_two_ptm", "partial_trace", "project_measurement"}

\* C1: add_ancilla(s) followed at once by project_measurement of the new,
\* highest qubit on the same s leaves no_qubits and the first 4^no_qubits
\* entries of the buffer as they were before the ancilla was added, in the
\* allocate branch and in the reuse branch.
C1_AncillaProjectRestores ==
    (/\ ret.op = "project_measurement" /\ ret.err = "none"
     /\ prev.op = "add_ancilla" /\ prev.err = "none"
     /\ prev.args = <<ret.args[2]>>
     /\ ret.args[1] = prev.before.no_qubits)
    => /\ self.no_qubits = prev.before.no_qubits
       /\ Logical(self.data, self._size) = prev.before.data

\* An ancilla in state 1 was added in the reuse branch to a state that is
\* not zero, and projected out again.
C1_Witness ==
    /\ ret.op = "project_measurement" /\ ret.err = "none"
    /\ prev.op = "add_ancilla" /\ prev.branch = "reuse" /\ prev.args = <<1>>
    /\ prev.before.data # Empty
    /\ prev.before.no_qubits >= 1

\* C2: allocated_qubits never decreases, whatever the operation.
C2_HighWaterMark ==
    [][stage = "live" => self'.allocated_qubits >= self.allocated_qubits]_vars

\* C3: the single-qubit kernel is launched only with a (4,4) float64 ptm and
\* the two-qubit kernel only with a (16,16) float64 ptm.
C3_KernelPtmShape ==
    \A k \in 1..Len(ret.kernels) :
        /\ ret.kernels[k].name = "single_qubit_ptm" =>
              ret.kernels[k].shape = <<4, 4>> /\ ret.kernels[k].dtype = "float64"
        /\ ret.kernels[k].name = "two_qubit_ptm" =>
              ret.kernels[k].shape = <<16, 16>> /\ ret.kernels[k].dtype = "float64"

\* C4: an operation that takes a qubit index raises when an index is out of
\* range, and whenever it raises the object and the PTM cache are as before
\* the call.
C4_RaiseLeavesState ==
    [][ret'.op \in IndexOps =>
          /\ (\E k \in 1..Len(ret'.args) : _validate_bit(self, ret'.args[k])
                 /\ (ret'.op = "project_measurement" => k = 1))
                => ret'.err # "none"
          /\ ret'.err # "none" => self' = self /\ _ptm_cache' = _ptm_cache]_vars

\* apply_ptm raised on a ptm it rejects, the qubit index being in range.
C4_Witness ==
    /\ ret.op = "apply_ptm" /\ ret.err = "ValueError"
    /\ ~_validate_bit(self, ret.args[1])

\* C5: copy() succeeds and returns an object of the same no_qubits and the
\* same state data.
C5_CopySucceeds ==
    ret.op = "copy" =>
        /\ ret.err = "none"
        /\ ret.val[1].no_qubits = self.no_qubits
        /\ Logical(ret.val[1].data, self._size) = Logical(self.data, self._size)

\* C6: add_ancilla adds one qubit, project_measurement removes one, every
\* other operation and every call that raises leaves the count; projecting
\* a 0-qubit state raises; no_qubits >= 0 and _size = 4^no_qubits always.
C6_QubitLifecycle ==
    /\ [](self.no_qubits >= 0 /\ self._size = 4^self.no_qubits)
    /\ [][/\ (ret'.op = "add_ancilla" /\ ret'.err = "none")
                => self'.no_qubits = self.no_qubits + 1
          /\ (ret'.op = "project_measurement" /\ ret'.err = "none")
                => self'.no_qubits = self.no_qubits - 1
          /\ (ret'.op \notin {"add_ancilla", "project_measurement", "__init__"}
              \/ ret'.err # "none")
                => self'.no_qubits = self.no_qubits
          /\ (ret'.op = "project_measurement" /\ self.no_qubits = 0)
                => ret'.err # "none"]_vars

\* project_measurement was called on a state of no qubits, and raised.
C6_Witness ==
    /\ stage = "live" /\ self.no_qubits = 0 /\ self.allocated_qubits >= 1
    /\ ret.op = "project_measurement" /\ ret.err = "ValueError"

\* C7: with (p0, p1) = partial_trace(b) read right before
\* project_measurement(b, s) on a state of n qubits, the projected state has
\* n - 1 qubits and its trace is p_s.
C7_ProjectedTraceIsMarginal ==
    (/\ ret.op = "project_measurement" /\ ret.err = "none"
     /\ prev.op = "partial_trace" /\ prev.err = "none"
     /\ prev.args = <<ret.args[1]>>)
    => /\ self.no_qubits = prev.before.no_qubits - 1
       /\ trace(self).err = "none"
       /\ trace(self).val[1] = prev.val[ret.args[2] + 1]

\* A qubit below the highest one, with both marginals nonzero, was projected
\* on 1.
C7_Witness ==
    /\ ret.op = "project_measurement" /\ ret.err = "none"
    /\ prev.op = "partial_trace" /\ prev.err = "none"
    /\ ret.args[1] < self.no_qubits /\ ret.args[2] = 1
    /\ prev.val[1] # 0 /\ prev.val[2] # 0

\* C8: the constructor raises for more than 15 qubits; trace and
\* partial_trace raise for more than 10 qubits, however reached, launching
\* no kernel and leaving the object, its work buffer included, as it was.
C8_SizeLimits ==
    [][/\ (ret'.op = "__init__" /\ ret'.args[1] > MaxCtorQubits)
             => ret'.err = "ValueError" /\ stage' = "unborn"
       /\ (ret'.op \in {"trace", "partial_trace"}
           /\ self.no_qubits > MaxTraceQubits)
             => /\ ret'.err # "none"
                /\ ret'.kernels = <<>>
                /\ self' = self]_vars

\* trace raised on an 11-qubit state that add_ancilla grew from 10 qubits.
C8_Witness ==
    /\ ret.op = "trace" /\ ret.err = "NotImplementedError"
    /\ self.no_qubits = MaxTraceQubits + 1
    /\ self.data_size = 4^self.no_qubits
    /\ self.diag_work = 2^MaxTraceQubits

\* C9: kraus_to_ptm raises ValueError, and returns nothing, when the two
\* tuples of bases differ in length or the Kraus operators are not square
\* matrices whose side is the product of the dim_hilbert of the subsystems;
\* it accepts every stack of square matrices of that side.
C9_KrausDimensionCheck ==
    ret.op = "kraus_to_ptm" =>
        LET kraus == ret.args[1]
            bases_in == ret.args[2]
            bases_out == ret.args[3]
            side == Numel(DimHilbert(bases_in))
            square == /\ kraus[Len(kraus) - 1] = side
                      /\ kraus[Len(kraus)] = side
        IN /\ (Len(bases_in) # Len(bases_out) \/ ~square)
                => ret.err = "ValueError"
           /\ (/\ Len(kraus) = 3 /\ square
               /\ DimHilbert(bases_in) = DimHilbert(bases_out))
                => ret.err = "none"

\* C10: kraus_to_ptm and ptm_convert_basis return a tensor whose axis k has
\* the length dim_pauli of the k-th output basis and indexes the output
\* element of subsystem k, and whose axis n+k does so for the k-th input
\* basis, also when the bases differ in size.
C10_AxisConvention ==
    (ret.op \in {"kraus_to_ptm", "ptm_convert_basis"} /\ ret.err = "none") =>
        LET bases_in == ret.args[Len(ret.args) - 1]
            bases_out == ret.args[Len(ret.args)]
            shape == DimPauli(bases_out) \o DimPauli(bases_in)
        IN /\ ret.val[1] = shape
           /\ DOMAIN ret.val[2] = Indices(shape)
           /\ \A e \in Indices(shape) : ret.val[2][e] = e

\* Whether the bases passed to ptm() fit the operation: as many as its
\* subsystems, each of the dim_hilbert of its subsystem.
BasesFit(op, arg) == arg.type = "tuple" /\ DimHilbert(arg.value) = op.dim_hilbert

\* C11 (as claimed): Operation.ptm raises TypeError for a bare Basis, and
\* ValueError for bases that do not fit; no PTM is returned and the cache of
\* the operation is left as it was.
C11_PtmTypeError ==
    [][ret'.op = "ptm" =>
          LET bases_in == ret'.args[1]
              bases_out == ret'.args[2]
          IN /\ (bases_in.type = "Basis" \/ bases_out.type = "Basis")
                   => ret'.err = "TypeError"
             /\ (/\ bases_in.type = "tuple" /\ bases_out.type # "Basis"
                 /\ (~BasesFit(operation, bases_in)
                     \/ (bases_out.type = "tuple" /\ ~BasesFit(operation, bases_out))))
                   => ret'.err = "ValueError"
             /\ ret'.err # "none" => ret'.val = <<<<>>>> /\ operation' = operation]_vars

\* C11 (amended): Operation.ptm raises ValueError for a bare Basis and for
\* bases that do not fit the operation; no PTM is returned and the cache of
\* the operation is left as it was.
C11_PtmFailsCleanly ==
    [][ret'.op = "ptm" =>
          LET bases_in == ret'.args[1]
              bases_out == ret'.args[2]
          IN /\ (\/ bases_in.type = "Basis" \/ bases_out.type = "Basis"
                 \/ ~BasesFit(operation, bases_in)
                 \/ (bases_out.type = "tuple" /\ ~BasesFit(operation, bases_out)))
                   => ret'.err = "ValueError"
             /\ ret'.err # "none" => ret'.val = <<<<>>>> /\ operation' = operation]_vars

\* ptm() was refused a bare Basis by an operation whose cache holds a PTM.
C11_Witness ==
    /\ ret.op = "ptm" /\ ret.err = "ValueError"
    /\ ret.args[1].type = "Basis"
    /\ operation._ptm_cache # {}

\* C12: the PTM of a Kraus set in the full basis B1, converted to the full
\* basis B2, is the PTM of the Kraus set in B2; with B1 = B2 the conversion
\* returns the PTM it was given.
C12_ConversionCommutes ==
    ret.op = "convert_ptm_basis" =>
        /\ ret.val[1] = ret.val[2]
        /\ ret.args[2] = ret.args[3] => ret.val[1] = ret.val[3]

\* A PTM that is not symmetric and differs between the two bases was
\* converted from general(2) to gell_mann(2).
C12_Witness ==
    /\ ret.op = "convert_ptm_basis"
    /\ ret.args[2] = "general" /\ ret.args[3] = "gell_mann"
    /\ ret.val[3] # ret.val[2]
    /\ \E x \in 1..4 : \E y \in 1..4 : ret.val[3][x][y] # ret.val[3][y][x]

\* C13: every noise channel of the qubit library, at every rate in [0, 1],
\* has Kraus operators with sum_z K_z^dagger K_z = I.
C13_TracePreserving ==
    ret.op \in Channels => ret.val = <<Q(1, 1), Q(1, 1), TRUE>>

\* C14: cnot() applied twice to the same ordered pair of subsystems is the
\* identity PTM, and one cnot() flips subsystem 1 exactly when subsystem 0
\* is in state 1: in the general basis it sends |0><0| (x) |0><0| to itself
\* and |1><1| (x) |0><0| to |1><1| (x) |1><1|.
C14_CnotInvolution ==
    (ret.op = "from_sequence" /\ ret.args[1] = "cnot" /\ ret.args[2] = "cnot"
        /\ ret.args[3] = <<0, 1>>) =>
        /\ ret.val[1] = identity_ptm
        /\ ret.args[4] = "general" =>
              /\ ret.val[2][1][1][1][1] = R(1, 0, 0)
              /\ ret.val[2][2][2][2][1] = R(1, 0, 0)
              /\ ret.val[2][2][1][2][1] = R(0, 0, 0)

C14_Witness ==
    /\ ret.op = "from_sequence" /\ ret.args = <<"cnot", "cnot", <<0, 1>>, "general">>
    /\ ret.val[1] = identity_ptm
    /\ ret.val[2] # identity_ptm

\* C15: optimal_bases(bases_in) returns input bases within the given ones
\* and output bases holding exactly the elements that receive a non-zero
\* contribution from a kept input element; compile(bases_in) has the shape
\* (|out_0|, |out_1|, |in_0|, |in_1|) of those bases.  For cnot: (b01, b0)
\* gives (b01, b01), (b0, b) gives (b0, b) and shape (1, 4, 1, 4), (b, b0)
\* gives (b, b), and (b01, b01) compiles to shape (2, 2, 2, 2).
C15_OptimalBases ==
    ret.op = "optimal_bases" =>
        LET given == ret.args[2]
            ob_in == ret.val[1][1]
            ob_out == ret.val[1][2]
            kernel == ret.val[2]
        IN /\ \A i \in 1..2 : Range(ob_in[i]) \subseteq Range(given[i])
           /\ \A x0, x1 \in 1..4 : \A y0 \in Range(ob_in[1]) : \A y1 \in Range(ob_in[2]) :
                 operation.ptm[x0][x1][y0][y1] # R(0, 0, 0) =>
                     x0 \in Range(ob_out[1]) /\ x1 \in Range(ob_out[2])
           /\ \A x0 \in 1..Len(kernel) : \E x1 \in 1..Len(kernel[1]) :
              \E y0 \in 1..Len(kernel[1][1]) : \E y1 \in 1..Len(kernel[1][1][1]) :
                 kernel[x0][x1][y0][y1] # R(0, 0, 0)
           /\ \A x1 \in 1..Len(kernel[1]) : \E x0 \in 1..Len(kernel) :
              \E y0 \in 1..Len(kernel[1][1]) : \E y1 \in 1..Len(kernel[1][1][1]) :
                 kernel[x0][x1][y0][y1] # R(0, 0, 0)
           /\ shape_of(kernel) = <<Len(ob_out[1]), Len(ob_out[2]), Len(ob_in[1]), Len(ob_in[2])>>
           /\ ret.args[1] = "cnot" =>
                 /\ ob_in = given
                 /\ given = <<b01, b0>> => ob_out = <<b01, b01>>
                 /\ given = <<b0, b>> => ob_out = <<b0, b>> /\ shape_of(kernel) = <<1, 4, 1, 4>>
                 /\ given = <<b, b0>> => ob_out = <<b, b>>
                 /\ given = <<b, b>> => shape_of(kernel) = <<4, 4, 4, 4>>
                 /\ given = <<b01, b01>> => shape_of(kernel) = <<2, 2, 2, 2>>

C15_Witness ==
    /\ ret.op = "optimal_bases" /\ ret.args = <<"cnot", <<b0, b>>>>
    /\ shape_of(ret.val[2]) = <<1, 4, 1, 4>>

\* C16: with two threads calling apply_ptm on distinct instances, under
\* every interleaving: every cache entry is a device copy of a valid PTM
\* whose bytes are its key; a thread dispatches its kernel with a device
\* copy equal to the PTM it passed; a thread that passed a valid PTM and has
\* returned left an entry for it, and no thread fails on the re-read; and no
\* step removes an entry or replaces it by one of different content.
C16_CacheRaceSafe ==
    /\ [](frames # NoFrames =>
            /\ \A k \in DOMAIN _ptm_cache :
                  /\ tobytes(_ptm_cache[k].array) = k
                  /\ ~_validate_ptm(_ptm_cache[k].array, <<4, 4>>)
                  /\ \E p \in ThreadPtms : _ptm_cache[k].array = to_gpu(p)
            /\ \A t \in 1..Threads :
                  /\ frames[t].pc \in {"dispatch", "done"} =>
                        frames[t].ptm_gpu.array = to_gpu(frames[t].ptm)
                  /\ frames[t].pc = "done" => frames[t].key \in DOMAIN _ptm_cache
                  /\ frames[t].pc = "ValueError" => _validate_ptm(frames[t].ptm, <<4, 4>>)
                  /\ frames[t].pc # "KeyError")
    /\ [][\A k \in DOMAIN _ptm_cache :
              /\ k \in DOMAIN _ptm_cache'
              /\ _ptm_cache'[k].array = _ptm_cache[k].array]_vars

\* Both threads missed on the same PTM and inserted a copy each; thread 1
\* dispatched with the copy thread 2 made.
C16_Witness ==
    /\ frames # NoFrames
    /\ frames[1].pc = "done" /\ frames[2].pc = "done"
    /\ frames[1].ptm = frames[2].ptm
    /\ frames[1].missed /\ frames[2].missed
    /\ frames[1].ptm_gpu.by = 2
    /\ \E k \in DOMAIN _ptm_cache : k # frames[1].key

\* C17: after add_ancilla(s), s in {0, 1}, on a state of n qubits, the first
\* 4^(n+1) entries of the buffer are the old state in block 3*s and zeros
\* in the three other blocks, in the allocate branch and in the reuse
\* branch, whatever the reused buffer held beyond the old state.
C17_AncillaBranchesAgree ==
    [][(ret'.op = "add_ancilla" /\ ret'.err = "none") =>
          LET n == self.no_qubits
              s == ret'.args[1]
          IN /\ ret'.branch = IF self.allocated_qubits = n THEN "allocate" ELSE "reuse"
             /\ \A i \in 0..(4^(n + 1) - 1) :
                   At(self'.data, i) = IF i \div 4^n = 3 * s
                                       THEN At(self.data, i % 4^n) ELSE 0]_vars

\* An ancilla in state 0 was added in the reuse branch to a state that is
\* not zero.
C17_Witness ==
    /\ ret.op = "add_ancilla" /\ ret.err = "none"
    /\ ret.branch = "reuse" /\ ret.args = <<0>>
    /\ ret.before.no_qubits >= 1
    /\ ret.before.data # Empty

\* C18: project_measurement(bit, s) on n qubits leaves n - 1 qubits; entry j
\* of the new state is the entry of the old state in which qubit `bit` has
\* the basis element of state s (0 or 3), the last qubit has the element
\* that j has at `bit` (if bit < n - 1), and every other qubit has the
\* element it has in j; the method returns the object itself.
C18_SwapThenTruncate ==
    [][(ret'.op = "project_measurement" /\ ret'.err = "none") =>
          LET n == self.no_qubits
              bit == ret'.args[1]
              s == ret'.args[2]
              old(j) == IF bit = n - 1 THEN j + 3 * s * 4^(n - 1)
                        ELSE SetDigit(j, bit, 3 * s) + Digit(j, bit) * 4^(n - 1)
          IN /\ self'.no_qubits = n - 1
             /\ \A j \in 0..(4^(n - 1) - 1) :
                   At(self'.data, j) = At(self.data, old(j))
             /\ ret'.val = <<"self">>]_vars

\* Qubit 0 of three was projected out, and the state left is not zero in an
\* entry where qubit 0 (formerly qubit 2) and qubit 1 differ.
C18_Witness ==
    /\ ret.op = "project_measurement" /\ ret.err = "none"
    /\ ret.args[1] = 0 /\ self.no_qubits = 2
    /\ \E j \in 0..15 : At(self.data, j) # 0 /\ Digit(j, 0) # Digit(j, 1)

\* C19: the buffer holds at least 4^allocated_qubits entries and
\* allocated_qubits >= no_qubits; no entry lies outside the buffer, and the
\* block that project_measurement copies from lies within it.
C19_BufferCapacity ==
    stage # "unborn" =>
        /\ self.data_size >= 4^self.allocated_qubits
        /\ self.allocated_qubits >= self.no_qubits
        /\ \A i \in DOMAIN self.data : i < self.data_size
        /\ (ret.op = "project_measurement" /\ ret.err = "none")
              => self.data_size >= 4^(self.no_qubits + 1)

\* An ancilla in state 1 was added in the reuse branch, filling the last
\* block of the buffer.
C19_Witness ==
    /\ ret.op = "add_ancilla" /\ ret.branch = "reuse" /\ ret.args = <<1>>
    /\ \E i \in DOMAIN self.data : i >= 3 * 4^(self.no_qubits - 1) /\ self.data[i] # 0
    /\ self.data_size = 4^self.no_qubits

\* C20: controlled_unitary(U) for a 2x2 matrix U and controlled_rotation for
\* an axis x, y or z hand from_kraus one 4x4 matrix, the block-diagonal
\* diag(I_2, U), which from_kraus accepts for two qubits; controlled_unitary
\* raises ValueError for a matrix that is not square and controlled_rotation
\* for any other axis.
C20_ControlledBlockDiagonal ==
    ret.op \in {"controlled_unitary", "controlled_rotation"} =>
        LET matrix == ret.val[1]
            U == ret.val[2]
            valid == IF ret.op = "controlled_unitary" THEN U.shape = <<2, 2>>
                     ELSE ret.args[2] \in {"x", "y", "z"}
        IN IF valid
           THEN /\ ret.err = "none"
                /\ operation # NoOperation
                /\ matrix.shape = <<4, 4>>
                /\ \A r, c \in 0..3 :
                      matrix.at[<<r, c>>] =
                          IF r >= 2 /\ c >= 2 THEN U.at[<<r - 2, c - 2>>]
                          ELSE IF r = c THEN Cone ELSE Czero
           ELSE ret.err = "ValueError"

====
